---------------------------- MODULE Spec2Model ----------------------------
(***************************************************************************)
(* Model of the court booking automation: the booking engine               *)
(* (src/src/booking_engine.py) as a state machine over a nondeterministic  *)
(* web page.  Texts are TLA+ strings handled character by character, list  *)
(* positions are 1-based (Python's index i is position i + 1 here).        *)
(***************************************************************************)
EXTENDS Integers, Sequences, FiniteSets, TLC

(***************************************************************************)
(* Bounds of the model.                                                    *)
(***************************************************************************)
MaxRetries == 2
MaxCards == 2

(***************************************************************************)
(* Values.                                                                 *)
(***************************************************************************)
\* Python's None (a result, a missing configuration value) and an element
\* that query_selector did not find.
None == "<None>"
NoElem == "<no element>"

\* None where a record (a parsed time, a slot, a booking result) is expected
Null == [none |-> TRUE]

\* config.test_target_time is None when test mode names no time; as a
\* target list it is kept apart from every list of times.
NoneTimes == <<None>>

(***************************************************************************)
(* Text helpers: Python's str operations, character by character.          *)
(***************************************************************************)
\* s[a-1:b], empty when out of range
Sub(s, a, b) == IF a >= 1 /\ b <= Len(s) /\ a <= b THEN SubSeq(s, a, b) ELSE ""

Char(s, i) == Sub(s, i, i)

Digits == <<"0", "1", "2", "3", "4", "5", "6", "7", "8", "9">>

IsDigit(c) == \E n \in 1..Len(Digits) : Digits[n] = c

DigitVal(c) == (CHOOSE n \in 1..Len(Digits) : Digits[n] = c) - 1

IsSpace(c) == c \in {" ", "\n", "\t"}

\* sub in s
Contains(sub, s) ==
    \E i \in 1..(Len(s) - Len(sub) + 1) : SubSeq(s, i, i + Len(sub) - 1) = sub

RECURSIVE SkipSpaces(_, _)
\* the first position at or after p holding no white space (Len(s) + 1 if none)
SkipSpaces(s, p) ==
    IF p <= Len(s) /\ IsSpace(Char(s, p)) THEN SkipSpaces(s, p + 1) ELSE p

RECURSIVE SkipSpacesBack(_, _)
SkipSpacesBack(s, p) ==
    IF p >= 1 /\ IsSpace(Char(s, p)) THEN SkipSpacesBack(s, p - 1) ELSE p

\* s without what lies before position a and after position b
StripBetween(s, a, b) == IF a > b THEN "" ELSE SubSeq(s, a, b)

\* s.strip()
Strip(s) == StripBetween(s, SkipSpaces(s, 1), SkipSpacesBack(s, Len(s)))

RECURSIVE ReplaceAll(_, _, _)
\* s.replace(old, new), old not empty
ReplaceAll(s, old, new) ==
    IF Len(s) < Len(old) THEN s
    ELSE IF SubSeq(s, 1, Len(old)) = old
         THEN new \o ReplaceAll(SubSeq(s, Len(old) + 1, Len(s)), old, new)
         ELSE Char(s, 1) \o ReplaceAll(SubSeq(s, 2, Len(s)), old, new)

\* inner_text().strip() of an element that may be missing
InnerTextStrip(t) == IF t = NoElem THEN NoElem ELSE Strip(t)

(***************************************************************************)
(* Configuration (src/src/config_loader.py) and the state of the model.    *)
(***************************************************************************)
VARIABLES
    \* configuration and arguments of attempt_booking
    max_retries,            \* config.booking['max_retries']
    booking_times,          \* config.booking_times, the target_times argument
    court_preference,       \* config.court_preference, the argument
    test_mode,              \* config.test_mode_enabled and its three targets
    \* attempt_booking
    pc,                     \* position in attempt_booking / book_slot
    attempt,                \* the loop variable of `for attempt in range'
    target_times,           \* the local target_times (overridden in test mode)
    courts,                 \* get_available_courts: names in discovery order
    court_idx,              \* position of the court loop in courts
    found_any_slots,
    booking_error,
    available_slots,        \* find_available_slots' result for this court
    slot,                   \* available_slots[0], handed to book_slot
    result,                 \* what attempt_booking returned (None until then)
    \* book_slot
    events,                 \* control look-ups and clicks of the current call
    select_card_time,       \* time text of the card whose control was clicked
    book_ret,               \* what the last book_slot call returned
    \* what happened so far in this call of attempt_booking
    listing_navs,           \* page.goto(booking_url) calls
    delays,                 \* page.wait_for_timeout(retry_delay) calls
    visited,                \* courts navigated to in this attempt
    court_steps,            \* what the loop did with the last of them
    checkouts,              \* courts book_slot was called on in this attempt
    matched,                \* courts whose discovery returned a match
    raised,                 \* courts whose processing raised
    outcomes,               \* how each finished attempt ended
    \* slot enumeration on one page
    page,                   \* the rendered court page
    targets,                \* the target_times argument of the enumeration
    matching_slots,         \* find_available_slots' result
    all_available_slots,    \* find_all_available_slots_for_date's result
    refiltered,             \* the second pass run on matching_slots
    nav,                    \* what navigate_to_target_date did and returned
    date_page,              \* what the page shows to navigate_to_target_date
    \* cancel_booking (src/src/bookings_manager.py)
    booking_info,           \* the booking handed to cancel_booking
    bookings_page,          \* what the bookings page shows during the call
    ui,                     \* the page interactions of the call, in order
    cancel_ret,             \* what cancel_booking returned (None until then)
    \* get_available_dates
    dates_page,             \* the date controls of the page
    days_ahead,             \* the days_ahead argument
    available_dates,        \* what get_available_dates returned
    \* is_authenticated (src/src/auth.py)
    auth_page,              \* what the page shows to the probes of the call
    auth_ret,               \* what is_authenticated returned (None until then)
    \* one process started by main (src/src/main.py, src/src/auth.py)
    mode,                   \* the mode the arguments select
    headless,               \* --headless
    session_file,           \* the browser state file
    context,                \* the browser context of the run (None until made)
    browser,                \* "none", "open" or "closed"
    checks,                 \* is_authenticated calls of ensure_authenticated
    waits,                  \* the waits between them, in ms
    elapsed,                \* authenticate: seconds counted by the loop
    check_count,            \* authenticate: polls made
    reloads,                \* authenticate: page reloads made
    saves,                  \* save_browser_state calls of the run
    ensure_ret,             \* what ensure_authenticated returned
    booking,                \* how attempt_booking ended (None: not called)
    booking_success,        \* run_booking's flag
    error_message,          \* run_booking's error message
    notifications,          \* the send_booking_notification calls
    returning,              \* the return of line 97 is under way
    run_ret,                \* what run_booking returned
    exit_status,            \* the exit status of the process
    \* the scheduler process (src/src/scheduler.py)
    job_state,              \* where each scheduled job stands
    open_browsers,          \* browsers launched and not closed
    runs_done,              \* booking runs that returned
    runs_raised,            \* booking runs that raised
    \* two processes on one session file
    file_doc,               \* the document in the session file
    mem_doc,                \* the state each process holds in its context
    visit_state,            \* where each process stands
    write_log,              \* the processes that wrote the file, in order
    \* parse_time_slot on its own
    header,                 \* the parts of the header text handed to it
    parsed,                 \* what it returned
    \* a session file loaded and saved again
    session_doc,            \* the file before the cycle
    trip_file,              \* the file now
    trip_context            \* the state of the context made from it

\* the variables of a booking run, pc apart
engineRest ==
    <<max_retries, booking_times, court_preference, test_mode, attempt,
      target_times, courts, court_idx, found_any_slots, booking_error,
      available_slots, slot, result, events, select_card_time, book_ret,
      listing_navs, delays, visited, court_steps, checkouts, matched, raised,
      outcomes>>

engineVars == <<pc, engineRest>>

slotVars ==
    <<page, targets, matching_slots, all_available_slots, refiltered, nav,
      date_page>>

cancelVars == <<booking_info, bookings_page, ui, cancel_ret>>

dateVars == <<dates_page, days_ahead, available_dates>>

authVars == <<auth_page, auth_ret>>

runVars ==
    <<mode, headless, session_file, context, browser, checks, waits, elapsed,
      check_count, reloads, saves, ensure_ret, booking, booking_success,
      error_message, notifications, returning, run_ret, exit_status>>

schedVars == <<job_state, open_browsers, runs_done, runs_raised>>

raceVars == <<file_doc, mem_doc, visit_state, write_log>>

parseVars == <<header, parsed>>

\* the variables of the calls checked on their own
tripVars == <<session_doc, trip_file, trip_context>>

unitVars == <<parseVars, tripVars>>

\* the variables of whole processes
procVars == <<runVars, schedVars, raceVars, unitVars>>

\* what a booking run leaves alone
sideVars ==
    <<slotVars, cancelVars, dateVars, authVars, procVars>>

\* what the slot enumeration leaves alone
besideSlots ==
    <<engineRest, cancelVars, dateVars, authVars, procVars>>

\* what cancel_booking leaves alone
besideCancel ==
    <<engineRest, slotVars, dateVars, authVars, procVars>>

\* what get_available_dates leaves alone
besideDates ==
    <<engineRest, slotVars, cancelVars, authVars, procVars>>

\* what a process of main leaves alone
besideRun ==
    <<engineRest, slotVars, cancelVars, dateVars, authVars, schedVars,
      raceVars, unitVars>>

\* what the scheduler leaves alone
besideSched ==
    <<engineRest, slotVars, cancelVars, dateVars, authVars, runVars, raceVars,
      unitVars>>

\* what the processes on the session file leave alone
besideRace ==
    <<engineRest, slotVars, cancelVars, dateVars, authVars, runVars,
      schedVars, unitVars>>

\* what is_authenticated leaves alone
besideAuth ==
    <<engineRest, slotVars, cancelVars, dateVars, procVars>>

vars == <<engineVars, sideVars>>

\* config.booking_window_days
booking_window_days == 7

\* config.test_mode_enabled and the properties that are None without it
TestModes ==
    { [enabled |-> FALSE, target_court |-> None, target_time |-> None,
       target_date |-> None],
      [enabled |-> TRUE, target_court |-> "Court A", target_time |-> "08:00",
       target_date |-> "2026-01-15"],
      [enabled |-> TRUE, target_court |-> None, target_time |-> None,
       target_date |-> None] }

\* config.test_target_time: [time_str] or None
test_target_time(tm) ==
    IF tm.enabled /\ tm.target_time # None THEN <<tm.target_time>> ELSE NoneTimes

(***************************************************************************)
(* get_target_date, parse_time_slot, time_matches_target.                  *)
(***************************************************************************)
\* strftime("%H"), strftime("%M"), strftime("%d"): two digits
Pad2(n) == Digits[(n \div 10) + 1] \o Digits[(n % 10) + 1]

\* the target date as text: the fixed test date, or today plus
\* booking_window_days (written "today+NN")
get_target_date(tm) ==
    IF tm.enabled /\ tm.target_date # None
    THEN tm.target_date
    ELSE "today+" \o Pad2(booking_window_days)

\* \d{1,2}: at p: the number of digits matched before the colon, 0 if none
HourDigits(s, p) ==
    IF IsDigit(Char(s, p)) /\ IsDigit(Char(s, p + 1)) /\ Char(s, p + 2) = ":"
    THEN 2
    ELSE IF IsDigit(Char(s, p)) /\ Char(s, p + 1) = ":" THEN 1 ELSE 0

\* :\d{2}\s*(?:AM|PM) once the hour ended at q and the blanks after the
\* minutes at r - 1: the position of the last character, 0 without a match
MatchMeridiem(s, q, r) ==
    IF /\ IsDigit(Char(s, q + 1))
       /\ IsDigit(Char(s, q + 2))
       /\ Sub(s, r, r + 1) \in {"AM", "PM"}
    THEN r + 1
    ELSE 0

\* the rest of the time once h hour digits matched at p
MatchAfterHour(s, p, h) ==
    IF h > 0 THEN MatchMeridiem(s, p + h, SkipSpaces(s, p + h + 3)) ELSE 0

\* \d{1,2}:\d{2}\s*(?:AM|PM) at p: the position of its last character, 0 if
\* it does not match there
MatchTime(s, p) == MatchAfterHour(s, p, HourDigits(s, p))

\* the dash at d and the second time after it, group 1 having ended at e1
MatchDash(s, e1, d) ==
    IF Char(s, d) = "-" /\ MatchTime(s, SkipSpaces(s, d + 1)) > 0 THEN e1 ELSE 0

\* \s*-\s* and the second time, group 1 having ended at e1 (0: no group 1)
MatchRangeAfter(s, e1) ==
    IF e1 > 0 THEN MatchDash(s, e1, SkipSpaces(s, e1 + 1)) ELSE 0

\* the whole time_pattern at p: the position where group 1 ends, 0 if the
\* pattern does not match there
MatchRange(s, p) == MatchRangeAfter(s, MatchTime(s, p))

\* group 1 of the leftmost of the matches at the positions `hits'
FirstHit(s, hits) ==
    IF hits = {} THEN None
    ELSE Sub(s, CHOOSE x \in hits : \A y \in hits : x <= y,
             MatchRange(s, CHOOSE x \in hits : \A y \in hits : x <= y))

\* re.search(time_pattern, s).group(1), None without a match
SearchStartTime(s) == FirstHit(s, {p \in 1..Len(s) : MatchRange(s, p) > 0})

\* the time strptime makes of the fields it read, Null where it raises
StrptimeFields(hour12, minute, ampm, blanks) ==
    IF \/ hour12 < 1
       \/ hour12 > 12
       \/ minute > 59
       \/ blanks < 1
    THEN Null
    ELSE [hour |-> IF ampm = "AM"
                   THEN (IF hour12 = 12 THEN 0 ELSE hour12)
                   ELSE (IF hour12 = 12 THEN 12 ELSE hour12 + 12),
          minute |-> minute]

\* strptime on a text whose hour has h digits
StrptimeHour(t, h) ==
    StrptimeFields(
        IF h = 2 THEN 10 * DigitVal(Char(t, 1)) + DigitVal(Char(t, 2))
        ELSE DigitVal(Char(t, 1)),
        10 * DigitVal(Char(t, h + 2)) + DigitVal(Char(t, h + 3)),
        Sub(t, Len(t) - 1, Len(t)),
        Len(t) - 2 - (h + 3))

\* datetime.strptime(t, "%I:%M %p") on a group-1 text: [hour, minute], or
\* Null where strptime raises ValueError.  %I takes 1[0-2]|0[1-9]|[1-9], %M
\* takes [0-5]\d, the blank of the format takes \s+.
Strptime(t) == StrptimeHour(t, HourDigits(t, 1))

\* target_date.replace(hour=..., minute=...)
OnTargetDate(time_obj) ==
    IF time_obj = Null THEN Null
    ELSE [hour |-> time_obj.hour, minute |-> time_obj.minute]

\* the rest of parse_time_slot once the pattern was searched
ParseStart(start_time_str) ==
    IF start_time_str = None THEN Null
    ELSE OnTargetDate(Strptime(start_time_str))

\* parse_time_slot: the hour and minute of the start time, Null if parsing
\* fails.  (The code returns them on the target date; its callers read
\* nothing but strftime("%H:%M") of it.)
parse_time_slot(time_text) ==
    ParseStart(SearchStartTime(Strip(ReplaceAll(time_text, "\n", " "))))

\* variant: the 12-hour clock (%I for %H)
FormatHHMM12(dt) ==
    Pad2(IF dt.hour % 12 = 0 THEN 12 ELSE dt.hour % 12) \o ":" \o Pad2(dt.minute)

\* strftime("%H:%M")
FormatHHMM(dt) == Pad2(dt.hour) \o ":" \o Pad2(dt.minute)

InList(x, list) == \E i \in 1..Len(list) : list[i] = x

\* lines 162-166: the comparison once the text is parsed
MatchesParsed(parsed_time, times) ==
    IF parsed_time = Null THEN FALSE
    ELSE InList(FormatHHMM(parsed_time), times)

time_matches_target(time_text, times) ==
    MatchesParsed(parse_time_slot(time_text), times)

(***************************************************************************)
(* The rendered court page: the slot cards and the select controls, two    *)
(* lists that query_selector_all returns independently.                    *)
(***************************************************************************)
\* a card: the text of its spots tag, instance-time header and location
\* paragraph, NoElem where the card has no such element
CardOpen7 == [spots |-> "2 Spots Left", time |-> "7:00 AM - 8:00 AM",
              loc |-> "location_on Court 1"]
CardFull7 == [spots |-> "No Spots Left", time |-> "7:00 AM - 8:00 AM",
              loc |-> "location_on Court 1"]
CardOpen8 == [spots |-> " 1 Spot Left ",
              time |-> "Program Instance\n8:00 AM - 9:00 AM", loc |-> NoElem]
CardTBD == [spots |-> "Open", time |-> "TBD", loc |-> "Court 2"]
CardNoSpotsTag == [spots |-> NoElem, time |-> "8:00 AM - 9:00 AM",
                   loc |-> "Court 2"]
CardNoTime == [spots |-> "3 Spots Left", time |-> NoElem, loc |-> "Court 2"]
CardOpen1330 == [spots |-> "5 Spots Left", time |-> "1:30 PM - 2:30 PM",
                 loc |-> "location_on Court 1"]
\* a card detached from the page: reading its spots tag raises
Raises == "<raises>"
CardDetached == [spots |-> Raises, time |-> "7:00 AM - 8:00 AM",
                 loc |-> "location_on Court 1"]

CardKinds ==
    {CardOpen7, CardFull7, CardOpen8, CardTBD, CardNoSpotsTag, CardNoTime,
     CardOpen1330, CardDetached}

\* the cards of the pages the booking run meets
EngineCardKinds == {CardOpen7, CardOpen8, CardNoTime}

RECURSIVE SeqsUpTo(_, _)
\* the sequences over S of length at most n
SeqsUpTo(S, n) ==
    IF n = 0 THEN {<<>>}
    ELSE LET shorter == SeqsUpTo(S, n - 1)
         IN  shorter \cup {Append(q, x) : q \in shorter, x \in S}

\* select_buttons[i] is the is_disabled() of the i-th select control
Pages == [time_slots : SeqsUpTo(CardKinds, MaxCards),
          select_buttons : SeqsUpTo(BOOLEAN, MaxCards)]

EnginePages == [time_slots : SeqsUpTo(EngineCardKinds, MaxCards),
                select_buttons : SeqsUpTo(BOOLEAN, MaxCards)]

EmptyPage == [time_slots |-> <<>>, select_buttons |-> <<>>]

TargetLists ==
    {<<>>, <<"07:00">>, <<"08:00", "07:00">>, <<"7:00">>, <<"13:30">>,
     NoneTimes}

(***************************************************************************)
(* find_available_slots and find_all_available_slots_for_date.             *)
(***************************************************************************)
NoSpotsPhrase == "No Spots Left"

\* variant: `and' for `or'
IsAvailableEitherWay(spots_text, is_disabled) ==
    ~(Contains(NoSpotsPhrase, spots_text) /\ is_disabled)

\* lines 234-246 and 352-364: the card passes the availability check
IsAvailable(spots_text, is_disabled) ==
    ~(Contains(NoSpotsPhrase, spots_text) \/ is_disabled)

\* the location paragraph with the icon text removed, "Unknown" without one
CourtNameOf(loc) ==
    IF loc = NoElem THEN "Unknown" ELSE Strip(ReplaceAll(loc, "location_on", ""))

\* variant: a card beyond the select controls is judged by the last of them
SlotInfoAtLastControl(pg, index) ==
    IF Len(pg.select_buttons) = 0 THEN <<>>
    ELSE LET time_slot == pg.time_slots[index]
             is_disabled ==
                 pg.select_buttons[IF index > Len(pg.select_buttons)
                                   THEN Len(pg.select_buttons) ELSE index]
             spots_text == InnerTextStrip(time_slot.spots)
         IN  IF time_slot.spots \in {NoElem, Raises} THEN <<>>
             ELSE IF ~IsAvailable(spots_text, is_disabled) THEN <<>>
             ELSE IF time_slot.time = NoElem THEN <<>>
             ELSE << [index |-> index,
                      time |-> InnerTextStrip(time_slot.time),
                      court_name |-> CourtNameOf(time_slot.loc),
                      spots_text |-> spots_text] >>

\* variant: a card without a location block is passed over as well
SlotInfoAtNeedsLocation(pg, index) ==
    IF index > Len(pg.select_buttons) THEN <<>>
    ELSE LET time_slot == pg.time_slots[index]
             is_disabled == pg.select_buttons[index]
             spots_text == InnerTextStrip(time_slot.spots)
         IN  IF time_slot.spots \in {NoElem, Raises} THEN <<>>
             ELSE IF ~IsAvailable(spots_text, is_disabled) THEN <<>>
             ELSE IF time_slot.time = NoElem \/ time_slot.loc = NoElem THEN <<>>
             ELSE << [index |-> index,
                      time |-> InnerTextStrip(time_slot.time),
                      court_name |-> CourtNameOf(time_slot.loc),
                      spots_text |-> spots_text] >>

\* one iteration of the first pass: the slot_info of the card at `index', or
\* nothing when an iteration `continue's
SlotInfoAt(pg, index) ==
    IF index > Len(pg.select_buttons) THEN <<>>
    ELSE LET time_slot == pg.time_slots[index]
             is_disabled == pg.select_buttons[index]
             spots_text == InnerTextStrip(time_slot.spots)
         IN  IF time_slot.spots = NoElem THEN <<>>
             ELSE IF time_slot.spots = Raises THEN <<>>
             ELSE IF ~IsAvailable(spots_text, is_disabled) THEN <<>>
             ELSE IF time_slot.time = NoElem THEN <<>>
             ELSE << [index |-> index,
                      time |-> InnerTextStrip(time_slot.time),
                      court_name |-> CourtNameOf(time_slot.loc),
                      spots_text |-> spots_text] >>

RECURSIVE CollectFrom(_, _)
\* the first pass from position `index' on
CollectFrom(pg, index) ==
    IF index > Len(pg.time_slots) THEN <<>>
    ELSE SlotInfoAt(pg, index) \o CollectFrom(pg, index + 1)

\* the first pass: all available slots of the page, whatever their time
CollectAvailable(pg) == CollectFrom(pg, 1)

\* variant: the loop starts at the second slot
FilterFromSecondSlot(slots, times) ==
    IF slots = <<>> THEN <<>>
    ELSE SelectSeq(Tail(slots), LAMBDA s : time_matches_target(s.time, times))

RECURSIVE FilterByTargetTimes(_, _)
\* the second pass: the slots whose time matches a target, in order
FilterByTargetTimes(slots, times) ==
    IF slots = <<>> THEN <<>>
    ELSE (IF time_matches_target(Head(slots).time, times)
          THEN <<Head(slots)>> ELSE <<>>)
         \o FilterByTargetTimes(Tail(slots), times)

\* lines 276-305: the second pass over the list `all' of the first.
\* `x in None' raises TypeError as soon as a time parses: it is caught and
\* gives [].
SecondPass(all, times) ==
    IF /\ times = NoneTimes
       /\ \E i \in 1..Len(all) : parse_time_slot(all[i].time) # Null
    THEN <<>>
    ELSE FilterByTargetTimes(all, times)

\* find_available_slots.  wait_for_selector times out on a page without
\* cards: it is caught and gives [].
find_available_slots(pg, times) ==
    IF Len(pg.time_slots) = 0 THEN <<>>
    ELSE SecondPass(CollectAvailable(pg), times)

\* find_all_available_slots_for_date once navigate_to_target_date answered
\* `navigated': nothing without the date, else the first pass (the date
\* fields of slot_info are the target date's)
find_all_available_slots_for_date(pg, navigated) ==
    IF ~navigated \/ Len(pg.time_slots) = 0 THEN <<>>
    ELSE CollectAvailable(pg)

(***************************************************************************)
(* navigate_to_target_date, as a function of what the page shows: whether  *)
(* the 'no instances available' text is visible, whether the target date's *)
(* control is visible within the first wait and what its click does,       *)
(* whether the next day's control and the pager are visible, whether the   *)
(* target's control is visible within the second wait and what its click   *)
(* does.  `clicks' lists the clicks made, in order.                        *)
(***************************************************************************)
ClickOutcomes == {"ok", "timeout", "error"}

NavEnvs == [no_instances : BOOLEAN, target_first : BOOLEAN,
            first_click : ClickOutcomes, next_day : BOOLEAN,
            right_arrow : BOOLEAN, target_second : BOOLEAN,
            second_click : ClickOutcomes]

\* lines 59-80: the next day's control and the pager, each clicked if it
\* is there; a click that raises is one that was not made
RevealClicks(env) ==
    (IF env.next_day THEN <<"next_day">> ELSE <<>>)
    \o (IF env.right_arrow THEN <<"right_arrow">> ELSE <<>>)

\* variant: a calendar that was moved counts as navigated
SecondAttemptTrustsReveal(env, reveal) ==
    IF env.target_second /\ env.second_click = "ok"
    THEN [ret |-> TRUE, clicks |-> Append(reveal, "target")]
    ELSE [ret |-> reveal # <<>>, clicks |-> reveal]

\* lines 82-96: the second attempt on the target date's control
SecondAttempt(env, reveal) ==
    IF env.target_second /\ env.second_click = "ok"
    THEN [ret |-> TRUE, clicks |-> Append(reveal, "target")]
    ELSE [ret |-> FALSE, clicks |-> reveal]

\* variant: the calendar is paged before the first attempt as well
navigate_to_target_date_pages_first(env) ==
    IF env.no_instances THEN [ret |-> FALSE, clicks |-> <<>>]
    ELSE IF env.target_first /\ env.first_click = "ok"
         THEN [ret |-> TRUE, clicks |-> Append(RevealClicks(env), "target")]
         ELSE IF env.target_first /\ env.first_click = "error"
              THEN [ret |-> FALSE, clicks |-> RevealClicks(env)]
              ELSE SecondAttempt(env, RevealClicks(env))

\* lines 21-100.  A click that raises anything but a timeout in the first
\* attempt ends the call in the outer handler.
navigate_to_target_date(env) ==
    IF env.no_instances THEN [ret |-> FALSE, clicks |-> <<>>]
    ELSE IF env.target_first /\ env.first_click = "ok"
         THEN [ret |-> TRUE, clicks |-> <<"target">>]
         ELSE IF env.target_first /\ env.first_click = "error"
              THEN [ret |-> FALSE, clicks |-> <<>>]
              ELSE SecondAttempt(env, RevealClicks(env))

\* what navigate_to_target_date can do and return, over all pages
NavOutcomes == {navigate_to_target_date(env) : env \in NavEnvs}

(***************************************************************************)
(* book_slot: the five steps of the checkout, in the order of the code.    *)
(***************************************************************************)
Steps == <<"select", "register", "proceed", "checkout", "final">>

StepNo(step) == CHOOSE n \in 1..Len(Steps) : Steps[n] = step

\* variant: the proceed-to-checkout step is left out
NextStepSkipsProceed(step) ==
    IF StepNo(step) = Len(Steps) THEN "return"
    ELSE IF step = "register" THEN "checkout"
    ELSE Steps[StepNo(step) + 1]

\* the step the code goes to after `step' ("return" after the last one)
NextStep(step) ==
    IF StepNo(step) = Len(Steps) THEN "return" ELSE Steps[StepNo(step) + 1]

\* what book_slot does with the control of a step: it finds it and clicks
\* it, it finds it and the click raises, it waits for it in vain, or (the
\* select control) it gives up before looking it up
Find(step) == "find:" \o step
Click(step) == "click:" \o step
ClickRaised(step) == "click raised:" \o step
TimedOut(step) == "timed out:" \o step
OutOfRange(step) == "out of range:" \o step

\* what a step meets: its control appears and the click goes through, the
\* control does not appear within the timeout (PlaywrightTimeoutError), or
\* the click raises another error
StepOutcomes == {"ok", "timeout", "error"}

\* variant: a timeout is swallowed and the sequence goes on
book_slot_handler_swallows_timeout(outcome) ==
    CASE outcome = "ok" -> "continue"
      [] outcome = "timeout" -> "continue"
      [] outcome = "error" -> "return False"

\* variant: a timeout is not caught
book_slot_handler_lets_timeout_escape(outcome) ==
    CASE outcome = "ok" -> "continue"
      [] outcome = "timeout" -> "raise"
      [] outcome = "error" -> "return False"

\* the except clauses of book_slot: what the call does on an outcome
book_slot_handler(outcome) ==
    CASE outcome = "ok" -> "continue"
      [] outcome = "timeout" -> "return False"
      [] outcome = "error" -> "return False"

\* lines 495-514: the position book_slot clicks the select control at, 0
\* when it returns False instead (index out of range, or IndexError)
ResolveIndex(pg, slot_info) ==
    LET index == slot_info.index
    IN  IF index > Len(pg.select_buttons) \/ index > Len(pg.time_slots) THEN 0
        ELSE LET time_element == pg.time_slots[index].time
                 found == {i \in 1..Len(pg.time_slots) :
                             /\ pg.time_slots[i].time # NoElem
                             /\ InnerTextStrip(pg.time_slots[i].time)
                                  = slot_info.time}
                 relocated ==
                     IF /\ time_element # NoElem
                        /\ InnerTextStrip(time_element) # slot_info.time
                        /\ found # {}
                     THEN CHOOSE i \in found : \A j \in found : i <= j
                     ELSE index
             IN  IF relocated > Len(pg.select_buttons) THEN 0 ELSE relocated

(***************************************************************************)
(* attempt_booking.                                                        *)
(***************************************************************************)
CourtNames == {"Court A", "Court B"}

\* what get_available_courts can return: the keys of a dict, so distinct
\* names in the order of the listing page
CourtLists ==
    {q \in SeqsUpTo(CourtNames, Cardinality(CourtNames)) :
        \A i, j \in 1..Len(q) : i # j => q[i] # q[j]}

BookingTimes == {<<"07:00">>}

\* variant: a test court that is not listed leaves the listing as it is
FilterCourtsKeepsListing(listing, tm) ==
    IF listing = <<>> THEN [return |-> TRUE, why |-> "no_courts", courts |-> <<>>]
    ELSE IF tm.enabled /\ tm.target_court # None /\ InList(tm.target_court, listing)
    THEN [return |-> FALSE, why |-> "", courts |-> <<tm.target_court>>]
    ELSE [return |-> FALSE, why |-> "", courts |-> listing]

\* lines 597-612: the courts the court loop runs over, or the early return
FilterCourts(listing, tm) ==
    IF listing = <<>> THEN [return |-> TRUE, why |-> "no_courts", courts |-> <<>>]
    ELSE IF tm.enabled /\ tm.target_court # None
    THEN IF InList(tm.target_court, listing)
         THEN [return |-> FALSE, why |-> "", courts |-> <<tm.target_court>>]
         ELSE [return |-> TRUE, why |-> "test_court_missing", courts |-> listing]
    ELSE [return |-> FALSE, why |-> "", courts |-> listing]

\* variant: any error is retried, whether or not a slot was found
retry_decision_on_any_error(found, error, att, maxr) ==
    IF error
    THEN IF att < maxr - 1 THEN "delay and continue" ELSE "fall through"
    ELSE "return None"

\* variant: the last attempt is not told apart (att < maxr)
retry_decision_off_by_one(found, error, att, maxr) ==
    IF found /\ error
    THEN IF att < maxr THEN "delay and continue" ELSE "fall through"
    ELSE "return None"

\* lines 670-683: the decision at the end of the court loop
retry_decision(found, error, att, maxr) ==
    IF found /\ error
    THEN IF att < maxr - 1 THEN "delay and continue" ELSE "fall through"
    ELSE IF ~found THEN "return None"
    ELSE "return None"

\* What discovery can return for a target list: find_available_slots over
\* every page a court can show, tabulated once per target list.
EngineTargetLists == BookingTimes \cup {test_target_time(tm) : tm \in TestModes}

DiscoveryResults ==
    {[times |-> times, slots |-> find_available_slots(pg, times)] :
     times \in EngineTargetLists, pg \in EnginePages}

\* variant: the last matching slot is taken
slot_to_book_last(slots) == slots[Len(slots)]

\* line 652: the slot handed to book_slot
slot_to_book(slots) == slots[1]

AtDecision == pc = "court" /\ court_idx > Len(courts)

configVars == <<max_retries, booking_times, test_mode>>
attemptVars == <<visited, court_steps, checkouts, matched, raised>>
callVars == <<events, select_card_time, book_ret>>

\* the state before attempt_booking is called
EngineInit ==
    /\ max_retries \in 0..MaxRetries
    /\ booking_times \in BookingTimes
    /\ court_preference \in {"any", "Court B"}
    /\ test_mode \in TestModes
    /\ attempt = 0
    /\ target_times = booking_times
    /\ courts = <<>>
    /\ court_idx = 1
    /\ found_any_slots = FALSE
    /\ booking_error = FALSE
    /\ available_slots = <<>>
    /\ slot = Null
    /\ result = Null
    /\ events = <<>>
    /\ select_card_time = None
    /\ book_ret = None
    /\ listing_navs = 0
    /\ delays = 0
    /\ visited = <<>>
    /\ court_steps = <<>>
    /\ checkouts = <<>>
    /\ matched = {}
    /\ raised = {}
    /\ outcomes = <<>>

\* no enumeration on its own is under way
SlotsIdle ==
    /\ page = EmptyPage
    /\ targets = <<>>
    /\ matching_slots = <<>>
    /\ all_available_slots = <<>>
    /\ refiltered = <<>>
    /\ nav = Null
    /\ date_page = Null

\* no cancellation is under way
CancelIdle ==
    /\ booking_info = Null
    /\ bookings_page = Null
    /\ ui = <<>>
    /\ cancel_ret = None

\* get_available_dates is not being called
DatesIdle ==
    /\ dates_page = Null
    /\ days_ahead = 0
    /\ available_dates = <<>>

\* is_authenticated is not being called
AuthIdle ==
    /\ auth_page = Null
    /\ auth_ret = None

\* the exit status of a process that has not exited
NoStatus == 0 - 1

\* main has not been started
RunIdle ==
    /\ mode = None
    /\ headless = FALSE
    /\ session_file = "absent"
    /\ context = None
    /\ browser = "none"
    /\ checks = 0
    /\ waits = <<>>
    /\ elapsed = 0
    /\ check_count = 0
    /\ reloads = 0
    /\ saves = 0
    /\ ensure_ret = None
    /\ booking = None
    /\ booking_success = FALSE
    /\ error_message = None
    /\ notifications = <<>>
    /\ returning = FALSE
    /\ run_ret = None
    /\ exit_status = NoStatus

\* no scheduler is running
SchedIdle ==
    /\ job_state = <<>>
    /\ open_browsers = 0
    /\ runs_done = 0
    /\ runs_raised = 0

\* no process is at the session file
RaceIdle ==
    /\ file_doc = <<>>
    /\ mem_doc = <<>>
    /\ visit_state = <<>>
    /\ write_log = <<>>

\* parse_time_slot is not being called on its own
ParseIdle ==
    /\ header = <<>>
    /\ parsed = None

\* no call is being checked on its own
\* no session file is being loaded and saved again
TripIdle ==
    /\ session_doc = <<>>
    /\ trip_file = <<>>
    /\ trip_context = {}

UnitIdle == ParseIdle /\ TripIdle

\* no process is running
ProcIdle == RunIdle /\ SchedIdle /\ RaceIdle /\ UnitIdle

\* no booking run is under way
EngineIdle ==
    /\ EngineInit
    /\ max_retries = 0
    /\ court_preference = "any"
    /\ ~test_mode.enabled

Init ==
    /\ EngineInit
    /\ pc = "start"
    /\ SlotsIdle
    /\ CancelIdle
    /\ DatesIdle
    /\ AuthIdle
    /\ ProcIdle

\* lines 569-577: the configuration is read, test mode overrides the arguments
Start ==
    /\ pc = "start"
    /\ target_times' = IF test_mode.enabled THEN test_target_time(test_mode)
                       ELSE booking_times
    /\ court_preference' = IF test_mode.enabled THEN "specific"
                           ELSE court_preference
    /\ attempt' = 0
    /\ pc' = "attempt"
    /\ UNCHANGED <<configVars, courts, court_idx, found_any_slots,
                   booking_error, available_slots, slot, result, callVars,
                   listing_navs, delays, attemptVars, outcomes, sideVars>>

\* lines 692-693: range(max_retries) is exhausted
AllAttemptsCompleted ==
    /\ pc = "attempt"
    /\ attempt >= max_retries
    /\ pc' = "done"
    /\ result' = Null
    /\ UNCHANGED <<configVars, court_preference, attempt, target_times, courts,
                   court_idx, found_any_slots, booking_error, available_slots,
                   slot, callVars, listing_navs, delays, attemptVars, outcomes,
                   sideVars>>

\* lines 584 and 685-690: the listing navigation raises; the outer handler
\* waits unless this was the last attempt, and the loop goes on
ListingError ==
    /\ pc = "attempt"
    /\ attempt < max_retries
    /\ listing_navs' = listing_navs + 1
    /\ delays' = IF attempt < max_retries - 1 THEN delays + 1 ELSE delays
    /\ outcomes' = Append(outcomes, "error")
    /\ attempt' = attempt + 1
    /\ visited' = <<>>
    /\ court_steps' = <<>>
    /\ checkouts' = <<>>
    /\ matched' = {}
    /\ raised' = {}
    /\ available_slots' = <<>>
    /\ slot' = Null
    /\ events' = <<>>
    /\ select_card_time' = None
    /\ book_ret' = None
    /\ UNCHANGED <<configVars, court_preference, pc, target_times, courts,
                   court_idx, found_any_slots, booking_error, result, sideVars>>

\* lines 584 and 685-689: the listing navigation raises and, before an
\* attempt that is not the last, so does page.wait_for_timeout in the
\* handler, which nothing in attempt_booking catches: the call is left by
\* the exception
ListingErrorPropagates ==
    /\ pc = "attempt"
    /\ attempt < max_retries - 1
    /\ listing_navs' = listing_navs + 1
    /\ outcomes' = Append(outcomes, "error")
    /\ pc' = "raised"
    /\ visited' = <<>>
    /\ court_steps' = <<>>
    /\ checkouts' = <<>>
    /\ matched' = {}
    /\ raised' = {}
    /\ available_slots' = <<>>
    /\ slot' = Null
    /\ events' = <<>>
    /\ select_card_time' = None
    /\ book_ret' = None
    /\ UNCHANGED <<configVars, court_preference, attempt, target_times, courts,
                   court_idx, found_any_slots, booking_error, result, delays,
                   sideVars>>

\* lines 579-616: an attempt starts: the listing page is loaded, the courts
\* are read and (in test mode) narrowed, the two flags are cleared
ListingLoaded ==
    /\ pc = "attempt"
    /\ attempt < max_retries
    /\ \E listing \in CourtLists :
         LET f == FilterCourts(listing, test_mode)
         IN  /\ courts' = f.courts
             /\ IF f.return
                THEN /\ pc' = "done"
                     /\ result' = Null
                     /\ outcomes' = Append(outcomes, f.why)
                     /\ UNCHANGED <<court_idx, found_any_slots, booking_error>>
                ELSE /\ pc' = "court"
                     /\ court_idx' = 1
                     /\ found_any_slots' = FALSE
                     /\ booking_error' = FALSE
                     /\ UNCHANGED <<result, outcomes>>
    /\ listing_navs' = listing_navs + 1
    /\ visited' = <<>>
    /\ court_steps' = <<>>
    /\ checkouts' = <<>>
    /\ matched' = {}
    /\ raised' = {}
    /\ available_slots' = <<>>
    /\ slot' = Null
    /\ events' = <<>>
    /\ select_card_time' = None
    /\ book_ret' = None
    /\ UNCHANGED <<configVars, court_preference, attempt, target_times, delays,
                   sideVars>>

\* a court is left without a book_slot call: the loop goes to the next one
\* (available_slots and slot are dead until they are assigned again)
NextCourt ==
    /\ court_idx' = court_idx + 1
    /\ available_slots' = <<>>
    /\ slot' = Null
    /\ events' = <<>>
    /\ select_card_time' = None
    /\ book_ret' = None
    /\ UNCHANGED <<pc, checkouts, matched, result, outcomes>>

\* the ways one court of the loop can go, up to the book_slot call
CourtWays == {"goto raised", "no instances", "no date", "no slots", "slots"}

\* lines 621-653: the calls made on the court, in order
CourtSteps(how) ==
    CASE how = "goto raised" -> <<"goto">>
      [] how = "no instances" -> <<"goto", "no_instances">>
      [] how = "no date" ->
             <<"goto", "no_instances", "navigate_to_target_date">>
      [] how = "no slots" ->
             <<"goto", "no_instances", "navigate_to_target_date",
               "find_available_slots">>
      [] how = "slots" ->
             <<"goto", "no_instances", "navigate_to_target_date",
               "find_available_slots", "book_slot">>

\* variant: a court without instances is taken for a failure
court_flags_skip_is_error(how, found, error) ==
    [found_any_slots |-> found \/ how = "slots",
     booking_error |-> error \/ how \in {"goto raised", "no instances"}]

\* variant: found_any_slots is set before the slot list is looked at
court_flags_found_before_check(how, found, error) ==
    [found_any_slots |-> found \/ how \in {"slots", "no slots"},
     booking_error |-> error \/ how = "goto raised"]

\* lines 649 and 665-667: the flags of the retry decision after the court
\* went the way `how' (book_slot's own result comes later)
court_flags(how, found, error) ==
    [found_any_slots |-> found \/ how = "slots",
     booking_error |-> error \/ how = "goto raised"]

\* the court went the way `how'
CourtWent(how) ==
    /\ court_steps' = CourtSteps(how)
    /\ found_any_slots' =
           court_flags(how, found_any_slots, booking_error).found_any_slots
    /\ booking_error' =
           court_flags(how, found_any_slots, booking_error).booking_error

\* lines 619-653 and 665-668: one court of the loop up to the book_slot call
CourtVisit ==
    /\ pc = "court"
    /\ court_idx <= Len(courts)
    /\ visited' = Append(visited, courts[court_idx])
    /\ \/ \* page.goto(court_link) raises: the handler of the court loop
          /\ CourtWent("goto raised")
          /\ raised' = raised \cup {courts[court_idx]}
          /\ NextCourt
       \/ \* 'no instances available' is visible: continue
          /\ CourtWent("no instances")
          /\ NextCourt
          /\ UNCHANGED raised
       \/ \* the target date cannot be selected: continue
          /\ \E went \in NavOutcomes : ~went.ret
          /\ CourtWent("no date")
          /\ NextCourt
          /\ UNCHANGED raised
       \/ \* the date is selected and the slots of the page are enumerated
          /\ \E went \in NavOutcomes : went.ret
          /\ \E found \in DiscoveryResults :
               /\ found.times = target_times
               /\ LET slots == found.slots
                  IN
                   IF slots = <<>>
                   THEN /\ CourtWent("no slots")
                        /\ NextCourt
                        /\ UNCHANGED raised
                   ELSE /\ CourtWent("slots")
                        /\ available_slots' = slots
                        /\ slot' = slot_to_book(slots)
                        /\ matched' = matched \cup {courts[court_idx]}
                        /\ checkouts' = Append(checkouts, courts[court_idx])
                        /\ events' = <<>>
                        /\ select_card_time' = None
                        /\ book_ret' = None
                        /\ pc' = Steps[1]
                        /\ UNCHANGED <<court_idx, raised, result, outcomes>>
    /\ UNCHANGED <<configVars, court_preference, attempt, target_times, courts,
                   listing_navs, delays, sideVars>>

\* what the re-query of book_slot makes of the page `pg': the position it
\* clicks and the time text of the card at that position
Requery(pg, slot_info) ==
    LET index == ResolveIndex(pg, slot_info)
    IN  [index |-> index,
         card_time |-> IF index = 0 THEN None
                       ELSE InnerTextStrip(pg.time_slots[index].time)]

\* variant: a failed book_slot ends the court loop of the attempt
BookSlotEndsLeavesLoop(how) ==
    /\ book_ret' = how
    /\ IF how = "True"
       THEN /\ result' = [time |-> slot.time, court_name |-> slot.court_name,
                          date |-> get_target_date(test_mode)]
            /\ pc' = "done"
            /\ outcomes' = Append(outcomes, "booked")
            /\ UNCHANGED <<court_idx, booking_error, raised>>
       ELSE /\ booking_error' = TRUE
            /\ raised' = IF how = "raised" THEN raised \cup {courts[court_idx]}
                         ELSE raised
            /\ court_idx' = Len(courts) + 1
            /\ pc' = "court"
            /\ UNCHANGED <<result, outcomes>>

\* book_slot returned `ret' to attempt_booking (lines 654-663), or raised
\* into the handler of the court loop (lines 665-668)
BookSlotEnds(how) ==
    /\ book_ret' = how
    /\ IF how = "True"
       THEN /\ result' = [time |-> slot.time, court_name |-> slot.court_name,
                          date |-> get_target_date(test_mode)]
            /\ pc' = "done"
            /\ outcomes' = Append(outcomes, "booked")
            /\ UNCHANGED <<court_idx, booking_error, raised>>
       ELSE /\ booking_error' = TRUE
            /\ raised' = IF how = "raised" THEN raised \cup {courts[court_idx]}
                         ELSE raised
            /\ court_idx' = court_idx + 1
            /\ pc' = "court"
            /\ UNCHANGED <<result, outcomes>>

\* the step `step' of book_slot meets `outcome'
BookStep(step, outcome) ==
    LET does == book_slot_handler(outcome)
    IN  /\ events' = events \o
                 (CASE outcome = "ok" -> <<Find(step), Click(step)>>
                    [] outcome = "timeout" -> <<TimedOut(step)>>
                    [] outcome = "error" -> <<Find(step), ClickRaised(step)>>)
        /\ IF does = "continue"
           THEN IF NextStep(step) = "return"
                THEN BookSlotEnds("True")
                ELSE /\ pc' = NextStep(step)
                     /\ UNCHANGED <<book_ret, result, outcomes, court_idx,
                                    booking_error, raised>>
           ELSE IF does = "return False"
                THEN BookSlotEnds("False")
                ELSE BookSlotEnds("raised")

\* lines 484-518: the slot list is read again, the position is checked
\* against the time text, the select control is clicked
BookSelect ==
    /\ pc = "select"
    /\ \E requery \in {Requery(pg, slot) : pg \in EnginePages} :
             IF requery.index = 0
             THEN /\ BookSlotEnds("False")
                  /\ events' = <<OutOfRange("select")>>
                  /\ UNCHANGED select_card_time
             ELSE /\ \E outcome \in {"ok", "error"} : BookStep("select", outcome)
                  /\ select_card_time' = requery.card_time
    /\ UNCHANGED <<configVars, court_preference, attempt, target_times, courts,
                   found_any_slots, available_slots, slot, listing_navs, delays,
                   visited, court_steps, checkouts, matched, sideVars>>

\* a later step: wait_for_selector, then the click
BookLater(step) ==
    /\ pc = step
    /\ \E outcome \in StepOutcomes : BookStep(step, outcome)
    /\ UNCHANGED <<configVars, court_preference, attempt, target_times, courts,
                   found_any_slots, available_slots, slot, select_card_time,
                   listing_navs, delays, visited, court_steps, checkouts, matched,
                   sideVars>>

\* lines 520-526
BookRegister == BookLater("register")

\* lines 528-534
BookProceed == BookLater("proceed")

\* lines 536-542
BookCheckout == BookLater("checkout")

\* lines 544-553
BookFinal == BookLater("final")

\* lines 670-683: the retry decision at the end of the court loop
RetryDecision ==
    /\ AtDecision
    /\ LET does == retry_decision(found_any_slots, booking_error, attempt,
                                  max_retries)
       IN  /\ outcomes' = Append(outcomes, IF matched # {} THEN "found_failed"
                                           ELSE "no_match")
           /\ IF does = "return None"
              THEN /\ pc' = "done"
                   /\ result' = Null
                   /\ UNCHANGED <<attempt, delays>>
              ELSE /\ pc' = "attempt"
                   /\ attempt' = attempt + 1
                   /\ delays' = IF does = "delay and continue" THEN delays + 1
                                ELSE delays
                   /\ UNCHANGED result
    /\ UNCHANGED <<configVars, court_preference, target_times, courts,
                   court_idx, found_any_slots, booking_error, available_slots,
                   slot, callVars, listing_navs, attemptVars, sideVars>>

\* lines 672-675 and 685-689: the retry delay raises, the handler takes the
\* exception and its own page.wait_for_timeout raises as well
RetryDelayPropagates ==
    /\ AtDecision
    /\ retry_decision(found_any_slots, booking_error, attempt, max_retries)
         = "delay and continue"
    /\ outcomes' = Append(outcomes, "error")
    /\ pc' = "raised"
    /\ UNCHANGED <<configVars, court_preference, attempt, target_times, courts,
                   court_idx, found_any_slots, booking_error, available_slots,
                   slot, result, callVars, listing_navs, delays, attemptVars,
                   sideVars>>

Next ==
    \/ Start
    \/ AllAttemptsCompleted
    \/ ListingError
    \/ ListingLoaded
    \/ CourtVisit
    \/ BookSelect
    \/ BookRegister
    \/ BookProceed
    \/ BookCheckout
    \/ BookFinal
    \/ RetryDecision
    \/ ListingErrorPropagates
    \/ RetryDelayPropagates

Spec == Init /\ [][Next]_vars

\* attempt_booking is straight-line code on one thread: a step that can be
\* taken is taken
SpecEngineFair == Spec /\ WF_vars(Next)

(***************************************************************************)
(* Slot enumeration on its own: the two enumerating functions applied to   *)
(* one rendered page.                                                      *)
(***************************************************************************)
SlotsInit ==
    /\ EngineIdle
    /\ CancelIdle
    /\ DatesIdle
    /\ AuthIdle
    /\ ProcIdle
    /\ pc = "enumerate"
    /\ page \in Pages
    /\ targets \in TargetLists
    /\ matching_slots = <<>>
    /\ all_available_slots = <<>>
    /\ refiltered = <<>>
    /\ nav = Null
    /\ date_page = Null

\* find_available_slots(page, target_times)
FindAvailableSlots ==
    /\ pc = "enumerate"
    /\ matching_slots' = find_available_slots(page, targets)
    /\ pc' = "enumerated"
    /\ UNCHANGED <<besideSlots, page, targets, all_available_slots, refiltered,
                   nav, date_page>>

\* find_all_available_slots_for_date(page, target_date)
FindAllAvailableSlotsForDate ==
    /\ pc = "enumerated"
    /\ \E went \in NavOutcomes :
         /\ nav' = went
         /\ all_available_slots' =
                find_all_available_slots_for_date(page, nav'.ret)
    /\ pc' = "listed"
    /\ UNCHANGED <<besideSlots, page, targets, matching_slots, refiltered,
                   date_page>>

\* lines 284-305: the second pass run once more, on the list it returned
FilterAgain ==
    /\ pc = "listed"
    /\ refiltered' = FilterByTargetTimes(matching_slots, targets)
    /\ pc' = "refiltered"
    /\ UNCHANGED <<besideSlots, page, targets, matching_slots,
                   all_available_slots, nav, date_page>>

SlotsNext ==
    \/ FindAvailableSlots
    \/ FindAllAvailableSlotsForDate
    \/ FilterAgain

SpecSlots == SlotsInit /\ [][SlotsNext]_vars

(***************************************************************************)
(* navigate_to_target_date on its own, on every page it can be shown.      *)
(***************************************************************************)
NavInit ==
    /\ EngineIdle
    /\ CancelIdle
    /\ DatesIdle
    /\ AuthIdle
    /\ ProcIdle
    /\ pc = "navigate"
    /\ page = EmptyPage
    /\ targets = <<>>
    /\ matching_slots = <<>>
    /\ all_available_slots = <<>>
    /\ refiltered = <<>>
    /\ nav = Null
    /\ date_page \in NavEnvs

\* navigate_to_target_date(page, target_date)
NavigateToTargetDate ==
    /\ pc = "navigate"
    /\ nav' = navigate_to_target_date(date_page)
    /\ pc' = "navigated"
    /\ UNCHANGED <<besideSlots, page, targets, matching_slots,
                   all_available_slots, refiltered, date_page>>

NavNext == NavigateToTargetDate

SpecNav == NavInit /\ [][NavNext]_vars

(***************************************************************************)
(* The two places that look for 'no instances available': attempt_booking  *)
(* on each court page, and navigate_to_target_date on whatever page it is  *)
(* called on.                                                              *)
(***************************************************************************)
CourtInit == Init \/ NavInit

CourtNext == Next \/ NavNext

SpecCourt == CourtInit /\ [][CourtNext]_vars

(***************************************************************************)
(* cancel_booking (src/src/bookings_manager.py), as a function of the      *)
(* booking it is given and of what the bookings page shows during the      *)
(* call.  `ui' lists the page interactions in the order the code makes     *)
(* them.                                                                   *)
(***************************************************************************)
RegIds == {None, "", "R1"}

BookingInfos == [court : {"Court 1"}, time : {"7:00 - 8:00 AM"}, reg_id : RegIds]

\* the class attribute of the 'Cancel Registration' item (None: no item)
LinkClasses ==
    {"dropdown-item", "dropdown-item disabled", "dropdown-item text-muted",
     None}

\* the reg_id values get_my_bookings reads after the reload (None: a card
\* whose id could not be read; <<>> also when get_my_bookings fails)
Relistings == {<<>>, <<"R2", "R1">>, <<None, "R2">>}

\* the steps of the call that may raise
RaisingSteps == {"none", "click more_vert", "reload"}

BookingsPages ==
    [on_page : BOOLEAN,                          \* the url is the bookings page
     card : {"card", "upcoming", "none"},        \* the selector finding the card
     more_vert : {"toggle", "aria", "none"},     \* the selector finding the menu
     link_visible : BOOLEAN,
     link_class : LinkClasses,
     dialog_visible : BOOLEAN,
     relisted : Relistings,
     card_after : {"absent", "hidden", "visible", "raises"},
     raises_at : RaisingSteps]

\* the outer handler: an exception in step `step' ends the call with False
CancelRaised(ui_so_far, step) == [ret |-> FALSE, ui |-> Append(ui_so_far, step)]

\* variant: a card that is still visible passes for gone
CheckCardGoneAnyway(pg, ui_so_far) ==
    CASE pg.card_after = "absent" ->
             [ret |-> TRUE,
              ui |-> ui_so_far \o <<"query card", "query upcoming card">>]
      [] pg.card_after \in {"hidden", "visible"} ->
             [ret |-> TRUE,
              ui |-> ui_so_far \o <<"query card", "card visible?">>]
      [] pg.card_after = "raises" ->
             [ret |-> TRUE, ui |-> ui_so_far \o <<"query card">>]

\* lines 381-404: the id is still listed; the card is looked up on the page
CheckCardGone(pg, ui_so_far) ==
    CASE pg.card_after = "absent" ->
             [ret |-> TRUE,
              ui |-> ui_so_far \o <<"query card", "query upcoming card">>]
      [] pg.card_after = "hidden" ->
             [ret |-> TRUE,
              ui |-> ui_so_far \o <<"query card", "card visible?">>]
      [] pg.card_after = "visible" ->
             [ret |-> FALSE,
              ui |-> ui_so_far \o <<"query card", "card visible?">>]
      [] pg.card_after = "raises" ->
             [ret |-> TRUE, ui |-> ui_so_far \o <<"query card">>]

\* lines 374-404: the bookings are listed again and searched for reg_id
VerifyCancelled(reg_id, pg, ui_so_far) ==
    IF \A i \in 1..Len(pg.relisted) : pg.relisted[i] # reg_id
    THEN [ret |-> TRUE, ui |-> Append(ui_so_far, "get_my_bookings")]
    ELSE CheckCardGone(pg, Append(ui_so_far, "get_my_bookings"))

\* lines 355-372: the confirm click, the wait for the dialog, the reload
ConfirmAndReload(reg_id, pg, ui_so_far) ==
    IF pg.raises_at = "reload"
    THEN CancelRaised(Append(ui_so_far, "click confirm"), "reload")
    ELSE VerifyCancelled(reg_id, pg, ui_so_far \o <<"click confirm", "reload">>)

\* variant: the confirm button is clicked whether or not the dialog shows
ClickCancelConfirmsUnseen(reg_id, pg, ui_so_far) ==
    ConfirmAndReload(reg_id, pg,
                     ui_so_far \o <<"click cancel", "dialog visible?">>)

\* lines 346-353: the cancel click and the confirmation dialog
ClickCancel(reg_id, pg, ui_so_far) ==
    IF ~pg.dialog_visible
    THEN [ret |-> FALSE, ui |-> ui_so_far \o <<"click cancel", "dialog visible?">>]
    ELSE ConfirmAndReload(reg_id, pg,
                          ui_so_far \o <<"click cancel", "dialog visible?">>)

\* lines 330-344: the 'Cancel Registration' item of the open menu.  Both
\* branches of the class test return False, and so does the handler when
\* get_attribute raises or returns None.
CancelLink(reg_id, pg, ui_so_far) ==
    IF ~(pg.link_visible /\ pg.link_class # None)
    THEN [ret |-> FALSE,
          ui |-> ui_so_far \o <<"cancel visible?", "cancel class">>]
    ELSE ClickCancel(reg_id, pg, Append(ui_so_far, "cancel visible?"))

\* lines 313-328: the menu button of the card
MoreVert(reg_id, pg, ui_so_far) ==
    CASE pg.more_vert = "none" ->
             [ret |-> FALSE,
              ui |-> ui_so_far \o <<"query more_vert", "query action button">>]
      [] pg.raises_at = "click more_vert" ->
             CancelRaised(ui_so_far \o
                 (IF pg.more_vert = "toggle" THEN <<"query more_vert">>
                  ELSE <<"query more_vert", "query action button">>),
                 "click more_vert")
      [] OTHER ->
             CancelLink(reg_id, pg, ui_so_far \o
                 (IF pg.more_vert = "toggle" THEN <<"query more_vert">>
                  ELSE <<"query more_vert", "query action button">>)
                 \o <<"click more_vert">>)

\* lines 300-311: the card is looked up by reg_id
FindCard(reg_id, pg, ui_so_far) ==
    CASE pg.card = "none" ->
             [ret |-> FALSE,
              ui |-> ui_so_far \o <<"query card", "query upcoming card">>]
      [] pg.card = "card" ->
             MoreVert(reg_id, pg, Append(ui_so_far, "query card"))
      [] pg.card = "upcoming" ->
             MoreVert(reg_id, pg,
                      ui_so_far \o <<"query card", "query upcoming card">>)

\* variant: only a missing id is refused, an empty one is not
cancel_booking_takes_empty_id(info, pg) ==
    IF info.reg_id = None
    THEN [ret |-> FALSE, ui |-> <<>>]
    ELSE FindCard(info.reg_id, pg,
                  IF pg.on_page THEN <<>> ELSE <<"view_bookings_page">>)

\* cancel_booking: what it returns and what it did on the page
cancel_booking(info, pg) ==
    IF info.reg_id \in {None, ""}
    THEN [ret |-> FALSE, ui |-> <<>>]
    ELSE FindCard(info.reg_id, pg,
                  IF pg.on_page THEN <<>> ELSE <<"view_bookings_page">>)

CancelInit ==
    /\ EngineIdle
    /\ SlotsIdle
    /\ DatesIdle
    /\ AuthIdle
    /\ ProcIdle
    /\ pc = "cancel"
    /\ booking_info \in BookingInfos
    /\ bookings_page \in BookingsPages
    /\ ui = <<>>
    /\ cancel_ret = None

\* one call of cancel_booking(page, booking_info)
CancelBooking ==
    /\ pc = "cancel"
    /\ ui' = cancel_booking(booking_info, bookings_page).ui
    /\ cancel_ret' = cancel_booking(booking_info, bookings_page).ret
    /\ pc' = "cancelled"
    /\ UNCHANGED <<besideCancel, booking_info, bookings_page>>

CancelNext == CancelBooking

SpecCancel == CancelInit /\ [][CancelNext]_vars

(***************************************************************************)
(* get_available_dates.  A date is the number of days it lies after        *)
(* today; a date control carries its date in its data-year, data-month and *)
(* data-day attributes, or carries none that int() and datetime() accept.  *)
(***************************************************************************)
MaxDaysAhead == 3
MaxButtons == 2

\* a control whose attributes do not give a date
NoDay == 0 - 1

\* today, the days of the longest window, and the day after it
DayOffsets == 0..(MaxDaysAhead + 1)

\* the button[data-year][data-month][data-day] elements of the page
DateButtons ==
    [mobile : BOOLEAN, visible : BOOLEAN, day : DayOffsets \cup {NoDay}]

\* raises: query_selector_all (or the wait before it) raises
DatesPages ==
    [date_buttons : SeqsUpTo(DateButtons, MaxButtons), raises : BOOLEAN]

\* line 412: today + timedelta(days=i) for i in range(1, days_ahead + 1)
all_dates(n) == [i \in 1..n |-> i]

\* lines 419-421: the selector leaves the mobile controls out
QueryDateButtons(buttons) == SelectSeq(buttons, LAMBDA b : ~b.mobile)

\* lines 426-439: the dates of the visible controls; a control that is not
\* visible, or whose attributes raise, adds nothing
visible_dates(buttons) ==
    {buttons[k].day :
        k \in {j \in 1..Len(buttons) :
                 buttons[j].visible /\ buttons[j].day # NoDay}}

RECURSIVE Insert(_, _)
\* d put into the ascending list q
Insert(d, q) ==
    IF q = <<>> THEN <<d>>
    ELSE IF d <= Head(q) THEN <<d>> \o q
         ELSE <<Head(q)>> \o Insert(d, Tail(q))

RECURSIVE Sorted(_)
\* sorted(q)
Sorted(q) == IF q = <<>> THEN <<>> ELSE Insert(Head(q), Sorted(Tail(q)))

\* line 443: [d for d in all_dates if d in visible_dates]
InVisible(dates, visible) == SelectSeq(dates, LAMBDA d : d \in visible)

\* lines 446-453
AvailableOrAll(available, n) ==
    IF available # <<>> THEN Sorted(available) ELSE all_dates(n)

\* lines 403-457
get_available_dates(pg, n) ==
    IF pg.raises THEN all_dates(n)
    ELSE AvailableOrAll(
             InVisible(all_dates(n),
                       visible_dates(QueryDateButtons(pg.date_buttons))),
             n)

DatesInit ==
    /\ EngineIdle
    /\ SlotsIdle
    /\ CancelIdle
    /\ AuthIdle
    /\ ProcIdle
    /\ pc = "dates"
    /\ dates_page \in DatesPages
    /\ days_ahead \in 1..MaxDaysAhead
    /\ available_dates = <<>>

\* one call of get_available_dates(page, days_ahead)
GetAvailableDates ==
    /\ pc = "dates"
    /\ available_dates' = get_available_dates(dates_page, days_ahead)
    /\ pc' = "dated"
    /\ UNCHANGED <<besideDates, dates_page, days_ahead>>

DatesNext == GetAvailableDates

SpecDates == DatesInit /\ [][DatesNext]_vars

(***************************************************************************)
(* is_authenticated (src/src/auth.py): three probes of the page and the    *)
(* page's URL.  A probe finds its element visible, finds it not visible    *)
(* (or not there), or raises.                                              *)
(***************************************************************************)
ProbeOutcomes == {"visible", "hidden", "raises"}

\* page.url, or the read of it raises
AuthUrls ==
    {"https://rec/Program", "https://rec/Account/Login", "https://idp/SignIn",
     "https://idp/oauth", Raises}

\* profile: query_selector('#btnProfile') and is_visible; "absent" is a
\* query that returns None
AuthPages ==
    [profile : ProbeOutcomes \cup {"absent"}, sign_in : ProbeOutcomes,
     url : AuthUrls, user_name : ProbeOutcomes]

UpperCase == "ABCDEFGHIJKLMNOPQRSTUVWXYZ"
LowerCase == "abcdefghijklmnopqrstuvwxyz"

LowerChar(c) ==
    IF \E n \in 1..Len(UpperCase) : Char(UpperCase, n) = c
    THEN Char(LowerCase, CHOOSE n \in 1..Len(UpperCase) : Char(UpperCase, n) = c)
    ELSE c

RECURSIVE Lower(_)
\* s.lower()
Lower(s) ==
    IF s = "" THEN "" ELSE LowerChar(Char(s, 1)) \o Lower(Sub(s, 2, Len(s)))

\* lines 96-111: the URL test and the user-name probe
AfterSignIn(pg, current_url) ==
    IF Contains("login", current_url) \/ Contains("signin", current_url)
    THEN FALSE
    ELSE pg.user_name = "visible"

\* variant: the 'Sign in' probe is left out
is_authenticated_without_sign_in(pg) ==
    IF pg.profile = "visible" THEN TRUE
    ELSE IF pg.url = Raises THEN FALSE
         ELSE AfterSignIn(pg, Lower(pg.url))

\* lines 63-111
is_authenticated(pg) ==
    IF pg.profile = "visible" THEN TRUE
    ELSE IF pg.sign_in = "visible" THEN FALSE
         ELSE IF pg.url = Raises THEN FALSE
              ELSE AfterSignIn(pg, Lower(pg.url))

AuthInit ==
    /\ EngineIdle
    /\ SlotsIdle
    /\ CancelIdle
    /\ DatesIdle
    /\ ProcIdle
    /\ pc = "authenticate"
    /\ auth_page \in AuthPages
    /\ auth_ret = None

\* one call of is_authenticated(page)
IsAuthenticated ==
    /\ pc = "authenticate"
    /\ auth_ret' = is_authenticated(auth_page)
    /\ pc' = "authenticated"
    /\ UNCHANGED <<besideAuth, auth_page>>

AuthNext == IsAuthenticated

SpecAuth == AuthInit /\ [][AuthNext]_vars

(***************************************************************************)
(* One process started by main (src/src/main.py): the one-shot booking run *)
(* of run_booking (default and --test-now) and authenticate_only           *)
(* (--authenticate), with create_browser_context, ensure_authenticated,    *)
(* authenticate and save_browser_state of src/src/auth.py.  Each call of   *)
(* is_authenticated gives one of the results the function can give; what   *)
(* attempt_booking does is summed up in how it ends.                       *)
(***************************************************************************)
Modes == {"default", "test_now", "authenticate"}

\* the file at browser_state_file: none, a document new_context can load,
\* one it cannot load, or the document written by this process
SessionFiles == {"absent", "stored", "corrupt", "written"}

\* authenticate, lines 121-122
max_wait_time == 300
wait_interval == 3

\* what is_authenticated can return
AuthOutcomes == {is_authenticated(pg) : pg \in AuthPages}

\* save_browser_state: both calls go through, context.storage_state() (or
\* open) raises, or json.dump raises into the file that open has truncated
SaveOutcomes == {"ok", "storage_state raises", "dump raises"}

\* variant: a failed save takes the file away
save_browser_state_removes(file, how) ==
    IF how = "ok" THEN "written" ELSE "absent"

\* auth.py lines 53-61: the file after the call; nothing is raised
save_browser_state(file, how) ==
    CASE how = "ok" -> "written"
      [] how = "storage_state raises" -> file
      [] how = "dump raises" -> "corrupt"

\* variant: a file that cannot be loaded is loaded all the same
create_browser_context_loads_any(file) ==
    IF file = "absent" THEN "fresh" ELSE "loaded"

\* auth.py lines 26-51: the context made from the file
create_browser_context(file) ==
    IF file \in {"stored", "written"} THEN "loaded" ELSE "fresh"

\* the headless argument of the calls: authenticate_only passes False
Headless == mode # "authenticate" /\ headless

\* main.py lines 94, 133 and 144
AuthFailedMessage == "Authentication failed - booking cannot proceed"
ErrorMessage == "Error in booking process"
CriticalMessage == "Critical error"

MainInit ==
    /\ EngineIdle
    /\ SlotsIdle
    /\ CancelIdle
    /\ DatesIdle
    /\ AuthIdle
    /\ SchedIdle
    /\ RaceIdle
    /\ UnitIdle
    /\ pc = "launch"
    /\ mode \in Modes
    /\ headless \in BOOLEAN
    /\ session_file \in {"absent", "stored", "corrupt"}
    /\ context = None
    /\ browser = "none"
    /\ checks = 0
    /\ waits = <<>>
    /\ elapsed = 0
    /\ check_count = 0
    /\ reloads = 0
    /\ saves = 0
    /\ ensure_ret = None
    /\ booking = None
    /\ booking_success = FALSE
    /\ error_message = None
    /\ notifications = <<>>
    /\ returning = FALSE
    /\ run_ret = None
    /\ exit_status = NoStatus

\* main.py lines 82-84 and 190-191: p.chromium.launch.  In run_booking a
\* failure is met by the outer handler (143-147); authenticate_only has
\* none and the process dies of the exception.
Launch ==
    /\ pc = "launch"
    /\ \E ok \in BOOLEAN :
         /\ browser' = IF ok THEN "open" ELSE "none"
         /\ pc' = IF ok THEN "context"
                  ELSE IF mode = "authenticate" THEN "exited" ELSE "notify"
         /\ error_message' = IF ~ok /\ mode # "authenticate"
                             THEN CriticalMessage ELSE error_message
         /\ exit_status' = IF ~ok /\ mode = "authenticate" THEN 1
                           ELSE exit_status
    /\ UNCHANGED <<besideRun, mode, headless, session_file, context, checks,
                   waits, elapsed, check_count, reloads, saves, ensure_ret,
                   booking, booking_success, notifications, returning,
                   run_ret>>

\* main.py lines 88-90 and 194-196: create_browser_context and new_page
CreateBrowserContext ==
    /\ pc = "context"
    /\ context' = create_browser_context(session_file)
    /\ pc' = "ensure"
    /\ UNCHANGED <<besideRun, mode, headless, session_file, browser, checks,
                   waits, elapsed, check_count, reloads, saves, ensure_ret,
                   booking, booking_success, error_message, notifications,
                   returning, run_ret, exit_status>>

\* ensure_authenticated has returned `r', or has raised
EnsureEnds(r) ==
    /\ ensure_ret' = r
    /\ pc' = "ensured"

\* auth.py lines 158-173: the booking page is loaded (authenticate_only has
\* loaded it once already, main.py line 199); page.goto may raise
EnsureGoto ==
    /\ pc = "ensure"
    /\ \/ /\ pc' = "check1"
          /\ UNCHANGED ensure_ret
       \/ EnsureEnds("raised")
    /\ UNCHANGED <<besideRun, mode, headless, session_file, context, browser,
                   checks, waits, elapsed, check_count, reloads, saves,
                   booking, booking_success, error_message, notifications,
                   returning, run_ret, exit_status>>

\* auth.py line 188
LongerWaitApplies == Headless /\ session_file # "absent"

\* variant: the third check is never made
AfterFailedCheckNoLongerWait(at) ==
    CASE at = "check1" -> [pc |-> "check2", wait |-> 1000]
      [] at = "check2" ->
             IF Headless THEN [pc |-> "ensured", wait |-> 0]
             ELSE [pc |-> "poll", wait |-> 0]
      [] at = "check3" -> [pc |-> "ensured", wait |-> 0]

\* variant: authenticate polls in headless mode too
AfterFailedCheckPollsHeadless(at) ==
    CASE at = "check1" -> [pc |-> "check2", wait |-> 1000]
      [] at = "check2" ->
             IF LongerWaitApplies THEN [pc |-> "check3", wait |-> 3000]
             ELSE [pc |-> "poll", wait |-> 0]
      [] at = "check3" -> [pc |-> "ensured", wait |-> 0]

\* where ensure_authenticated goes after its check at `at' has failed:
\* the next check and the wait before it (0: none), or authenticate
AfterFailedCheck(at) ==
    CASE at = "check1" -> [pc |-> "check2", wait |-> 1000]
      [] at = "check2" ->
             IF LongerWaitApplies THEN [pc |-> "check3", wait |-> 3000]
             ELSE IF Headless THEN [pc |-> "ensured", wait |-> 0]
                  ELSE [pc |-> "poll", wait |-> 0]
      [] at = "check3" -> [pc |-> "ensured", wait |-> 0]

\* auth.py lines 175-198 and 211-218 with 150-152: one is_authenticated
\* check of ensure_authenticated and what follows from its result;
\* authenticate(page, True) returns False at once
EnsureCheckGoes(ok, next) ==
    /\ checks' = checks + 1
    /\ waits' = IF ~ok /\ next.wait # 0 THEN Append(waits, next.wait) ELSE waits
    /\ pc' = IF ok THEN "ensured" ELSE next.pc
    /\ ensure_ret' = IF ok THEN "True"
                     ELSE IF next.pc = "ensured" THEN "False" ELSE ensure_ret

EnsureCheck ==
    /\ pc \in {"check1", "check2", "check3"}
    /\ \E ok \in AuthOutcomes : EnsureCheckGoes(ok, AfterFailedCheck(pc))
    /\ UNCHANGED <<besideRun, mode, headless, session_file, context, browser,
                   elapsed, check_count, reloads, saves, booking,
                   booking_success, error_message, notifications, returning,
                   run_ret, exit_status>>

\* auth.py line 126: the loop condition
PollAgain(seconds) == seconds < max_wait_time

\* variant: the page is reloaded on every poll
ReloadDueAlways(count) == TRUE

\* auth.py line 132
ReloadDue(count) == count % 5 = 0

\* auth.py lines 126-149 and 211-218: one round of the loop of authenticate:
\* the wait, the reload that is due, the check; on success
\* ensure_authenticated saves the state and returns True, at the ceiling it
\* returns False; page.wait_for_timeout may raise
AuthPoll ==
    /\ pc = "poll"
    /\ PollAgain(elapsed)
    /\ \/ /\ elapsed' = elapsed + wait_interval
          /\ check_count' = check_count + 1
          /\ reloads' = IF ReloadDue(check_count') THEN reloads + 1 ELSE reloads
          /\ \E ok \in AuthOutcomes, how \in SaveOutcomes :
               /\ session_file' = IF ok THEN save_browser_state(session_file, how)
                                  ELSE session_file
               /\ saves' = IF ok THEN saves + 1 ELSE saves
               /\ pc' = IF ok \/ ~PollAgain(elapsed') THEN "ensured" ELSE "poll"
               /\ ensure_ret' = IF ok THEN "True"
                                ELSE IF ~PollAgain(elapsed') THEN "False"
                                     ELSE ensure_ret
       \/ /\ EnsureEnds("raised")
          /\ UNCHANGED <<elapsed, check_count, reloads, session_file, saves>>
    /\ UNCHANGED <<besideRun, mode, headless, context, browser, checks,
                   waits, booking, booking_success, error_message,
                   notifications, returning, run_ret, exit_status>>

\* main.py lines 93-102, 132-140 and 211-218: what the caller does with
\* the result of ensure_authenticated
AfterEnsure ==
    /\ pc = "ensured"
    /\ mode \in Modes
    /\ IF mode = "authenticate"
       THEN /\ pc' = "close"
            /\ UNCHANGED <<error_message, returning, session_file, saves>>
       ELSE CASE ensure_ret = "False" ->
                   /\ error_message' = AuthFailedMessage
                   /\ returning' = TRUE
                   /\ pc' = "close"
                   /\ UNCHANGED <<session_file, saves>>
              [] ensure_ret = "True" ->
                   /\ \E how \in SaveOutcomes :
                        session_file' = save_browser_state(session_file, how)
                   /\ saves' = saves + 1
                   /\ pc' = "booking"
                   /\ UNCHANGED <<error_message, returning>>
              [] ensure_ret = "raised" ->
                   /\ error_message' = ErrorMessage
                   /\ pc' = "close"
                   /\ UNCHANGED <<returning, session_file, saves>>
    /\ UNCHANGED <<besideRun, mode, headless, context, browser, checks,
                   waits, elapsed, check_count, reloads, ensure_ret, booking,
                   booking_success, notifications, run_ret, exit_status>>

\* how attempt_booking can end: with a booking result, with None, raising
BookingOutcomes == {"result", "none", "raised"}

\* main.py lines 105-140
AttemptBooking ==
    /\ pc = "booking"
    /\ \E how \in BookingOutcomes :
         /\ booking' = how
         /\ booking_success' = (how = "result")
         /\ error_message' = IF how = "raised" THEN ErrorMessage
                             ELSE error_message
    /\ pc' = "close"
    /\ UNCHANGED <<besideRun, mode, headless, session_file, context, browser,
                   checks, waits, elapsed, check_count, reloads, saves,
                   ensure_ret, notifications, returning, run_ret,
                   exit_status>>

\* main.py lines 141-147 and 219-220: browser.close() in the finally
\* clause.  When it raises in run_booking the outer handler takes over,
\* also from the return of line 97; in authenticate_only the process dies.
BrowserClose ==
    /\ pc = "close"
    /\ \E ok \in BOOLEAN :
         /\ browser' = IF ok THEN "closed" ELSE browser
         /\ IF mode = "authenticate"
            THEN /\ exit_status' = IF ok THEN 0 ELSE 1
                 /\ pc' = "exited"
                 /\ UNCHANGED <<error_message, returning, run_ret>>
            ELSE /\ error_message' = IF ok THEN error_message
                                     ELSE CriticalMessage
                 /\ returning' = FALSE
                 /\ run_ret' = IF ok /\ returning THEN "False" ELSE run_ret
                 /\ pc' = IF ok /\ returning THEN "exit" ELSE "notify"
                 /\ UNCHANGED exit_status
    /\ UNCHANGED <<besideRun, mode, headless, session_file, context, checks,
                   waits, elapsed, check_count, reloads, saves, ensure_ret,
                   booking, booking_success, notifications>>

\* variant: the flag of the notification is always True
notification_of_wrong_flag(success, details, message) ==
    [success |-> TRUE, booking_details |-> details, error_message |-> message]

\* main.py lines 155-160: the arguments of send_booking_notification
notification_of(success, details, message) ==
    [success |-> success, booking_details |-> details,
     error_message |-> message]

\* main.py lines 149-164: the notification is sent (a failure to send is
\* logged) and run_booking returns booking_success
Notify ==
    /\ pc = "notify"
    /\ notifications' =
           Append(notifications,
                  notification_of(booking_success, booking, error_message))
    /\ run_ret' = IF booking_success THEN "True" ELSE "False"
    /\ pc' = "exit"
    /\ UNCHANGED <<besideRun, mode, headless, session_file, context, browser,
                   checks, waits, elapsed, check_count, reloads, saves,
                   ensure_ret, booking, booking_success, error_message,
                   returning, exit_status>>

\* variant: every run exits with 0
exit_status_of_always_zero(success) == 0

\* main.py lines 277 and 283: sys.exit(0 if success else 1)
exit_status_of(success) == IF success = "True" THEN 0 ELSE 1

Exit ==
    /\ pc = "exit"
    /\ exit_status' = exit_status_of(run_ret)
    /\ pc' = "exited"
    /\ UNCHANGED <<besideRun, mode, headless, session_file, context, browser,
                   checks, waits, elapsed, check_count, reloads, saves,
                   ensure_ret, booking, booking_success, error_message,
                   notifications, returning, run_ret>>

MainNext ==
    \/ Launch
    \/ CreateBrowserContext
    \/ EnsureGoto
    \/ EnsureCheck
    \/ AuthPoll
    \/ AfterEnsure
    \/ AttemptBooking
    \/ BrowserClose
    \/ Notify
    \/ Exit

SpecMain == MainInit /\ [][MainNext]_vars

\* the process is never suspended for ever: it is a single thread that
\* runs its statements one after the other
SpecMainFair == SpecMain /\ WF_vars(MainNext)

(***************************************************************************)
(* The scheduler process (src/src/scheduler.py, run_scheduled of           *)
(* src/src/main.py): one job per configured time, all run by the one       *)
(* thread that loops over schedule.run_pending() and time.sleep().         *)
(* run_pending runs the jobs that are due one after the other; a job is    *)
(* _run_booking, which sleeps two seconds and calls run_booking.           *)
(***************************************************************************)
MaxRuns == 3

\* config.booking_times of the scheduler
SchedTimes == {"07:00", "19:00"}

JobStates == {"idle", "due", "called", "running"}

\* the jobs inside _run_booking
ActiveJobs(states) == {j \in DOMAIN states : states[j] \in {"called", "running"}}

\* variant: a due job is started whatever the thread is doing
ThreadFreeAlways(states) == TRUE

\* scheduler.py lines 73-75 with 62-63: job.run() is an ordinary call, so
\* the next job of run_pending is started when the one before has returned
ThreadFree(states) == ActiveJobs(states) = {}

SchedInit ==
    /\ EngineIdle
    /\ SlotsIdle
    /\ CancelIdle
    /\ DatesIdle
    /\ AuthIdle
    /\ RunIdle
    /\ RaceIdle
    /\ UnitIdle
    /\ pc = "sleep"
    /\ job_state = [j \in SchedTimes |-> "idle"]
    /\ open_browsers = 0
    /\ runs_done = 0
    /\ runs_raised = 0

\* scheduler.py line 74: run_pending is called and finds the jobs whose
\* time has come
RunPending ==
    /\ pc = "sleep"
    /\ runs_done + runs_raised < MaxRuns
    /\ \E due \in SUBSET SchedTimes :
         job_state' = [j \in SchedTimes |->
                          IF j \in due THEN "due" ELSE job_state[j]]
    /\ pc' = "run_pending"
    /\ UNCHANGED <<besideSched, open_browsers, runs_done, runs_raised>>

\* scheduler.py lines 50-60: run_pending calls the next due job
StartJob(j) ==
    /\ pc = "run_pending"
    /\ job_state[j] = "due"
    /\ ThreadFree(job_state)
    /\ job_state' = [job_state EXCEPT ![j] = "called"]
    /\ UNCHANGED <<besideSched, pc, open_browsers, runs_done, runs_raised>>

\* scheduler.py lines 62-65 with main.py lines 41-84: booking_function is
\* called and launches its browser, or raises before it has one
LaunchJob(j) ==
    /\ job_state[j] = "called"
    /\ \/ /\ job_state' = [job_state EXCEPT ![j] = "running"]
          /\ open_browsers' = open_browsers + 1
          /\ UNCHANGED runs_raised
       \/ /\ job_state' = [job_state EXCEPT ![j] = "idle"]
          /\ runs_raised' = runs_raised + 1
          /\ UNCHANGED open_browsers
    /\ UNCHANGED <<besideSched, pc, runs_done>>

\* main.py lines 141-164 with scheduler.py lines 62-65: the browser is
\* closed and run_booking returns, or raises into the handler of
\* _run_booking
FinishJob(j) ==
    /\ job_state[j] = "running"
    /\ job_state' = [job_state EXCEPT ![j] = "idle"]
    /\ open_browsers' = open_browsers - 1
    /\ \/ /\ runs_done' = runs_done + 1
          /\ UNCHANGED runs_raised
       \/ /\ runs_raised' = runs_raised + 1
          /\ UNCHANGED runs_done
    /\ UNCHANGED <<besideSched, pc>>

\* scheduler.py line 75: no job is left, run_pending returns and the
\* thread sleeps
SchedSleep ==
    /\ pc = "run_pending"
    /\ \A j \in SchedTimes : job_state[j] = "idle"
    /\ pc' = "sleep"
    /\ UNCHANGED <<besideSched, schedVars>>

SchedNext ==
    \/ RunPending
    \/ \E j \in SchedTimes : StartJob(j)
    \/ \E j \in SchedTimes : LaunchJob(j)
    \/ \E j \in SchedTimes : FinishJob(j)
    \/ SchedSleep

SpecSched == SchedInit /\ [][SchedNext]_vars

(***************************************************************************)
(* Two processes on one session file: a keep-alive visit                   *)
(* (src/scripts/auth/auth_keepalive.py) and a booking run (run_booking of  *)
(* src/src/main.py).  Each makes its context from the file, visits the     *)
(* site, where a session that is accepted is refreshed, and saves the      *)
(* state of its context.  A document is the set of the sessions it holds;  *)
(* the file holds a whole document or what is left of an unfinished or     *)
(* overlapped write.                                                       *)
(***************************************************************************)
MaxWrites == 2

Processes == {"keepalive", "booking"}

\* the session stored before either process starts
StoredDoc == {"stored"}

WholeFile(doc) == [whole |-> TRUE, doc |-> doc]

\* open(file, 'w') has emptied the file, or two writes are mixed in it
PartialFile == [whole |-> FALSE, doc |-> {}]

\* auth.py lines 33-51: the state of the context made from the file; a
\* file new_context cannot read gives a context without state
ContextFrom(file) == IF file.whole THEN file.doc ELSE {}

\* variant: the state to save is the refreshed session alone
StorageStateOwnOnly(doc, p) == {p}

\* auth.py line 56: context.storage_state() is the whole state of the
\* context
StorageState(doc, p) == doc

\* variant: a process saves only when no other process is using the file
MaySaveLocked(states, p) ==
    /\ states[p] = "visited"
    /\ \A q \in Processes \ {p} : states[q] \in {"start", "done"}

\* auth.py lines 55-57: the save takes no lock and looks at no other
\* process
MaySave(states, p) == states[p] = "visited"

RaceInit ==
    /\ EngineIdle
    /\ SlotsIdle
    /\ CancelIdle
    /\ DatesIdle
    /\ AuthIdle
    /\ RunIdle
    /\ SchedIdle
    /\ UnitIdle
    /\ pc = "processes"
    /\ file_doc = WholeFile(StoredDoc)
    /\ mem_doc = [p \in Processes |-> {}]
    /\ visit_state = [p \in Processes |-> "start"]
    /\ write_log = <<>>

\* auth.py lines 26-51 (auth_keepalive.py line 40, main.py line 89)
LoadState(p) ==
    /\ visit_state[p] = "start"
    /\ mem_doc' = [mem_doc EXCEPT ![p] = ContextFrom(file_doc)]
    /\ visit_state' = [visit_state EXCEPT ![p] = "loaded"]
    /\ UNCHANGED <<besideRace, pc, file_doc, write_log>>

\* auth_keepalive.py lines 44-85, main.py lines 93-97: the site is visited;
\* an accepted session is refreshed in the context, and a process that is
\* not authenticated ends without saving
VisitSite(p) ==
    /\ visit_state[p] = "loaded"
    /\ \/ /\ mem_doc' = [mem_doc EXCEPT ![p] = mem_doc[p] \cup {p}]
          /\ visit_state' = [visit_state EXCEPT ![p] = "visited"]
       \/ /\ visit_state' = [visit_state EXCEPT ![p] = "done"]
          /\ UNCHANGED mem_doc
    /\ UNCHANGED <<besideRace, pc, file_doc, write_log>>

\* auth.py lines 56-57: the state is taken from the context and the file
\* is opened for writing, which empties it
OpenForWrite(p) ==
    /\ MaySave(visit_state, p)
    /\ file_doc' = PartialFile
    /\ visit_state' = [visit_state EXCEPT ![p] = "writing"]
    /\ UNCHANGED <<besideRace, pc, mem_doc, write_log>>

\* the other writers now have a file that was written to after they
\* opened it
Overlapped(states, p) ==
    [q \in Processes |->
        IF q = p THEN "done"
        ELSE IF states[q] = "writing" THEN "writing over" ELSE states[q]]

\* auth.py line 58: json.dump writes the document from the start of the
\* file; over what another process wrote since the file was opened the
\* result is the document or a mix of the two
DumpState(p) ==
    /\ visit_state[p] \in {"writing", "writing over"}
    /\ \/ file_doc' = WholeFile(StorageState(mem_doc[p], p))
       \/ /\ visit_state[p] = "writing over"
          /\ file_doc' = PartialFile
    /\ visit_state' = Overlapped(visit_state, p)
    /\ write_log' = Append(write_log, p)
    /\ UNCHANGED <<besideRace, pc, mem_doc>>

\* the keep-alive visit is run again by its timer and the booking run by
\* its schedule
NextVisit(p) ==
    /\ visit_state[p] = "done"
    /\ Len(write_log) < MaxWrites
    /\ visit_state' = [visit_state EXCEPT ![p] = "start"]
    /\ UNCHANGED <<besideRace, pc, file_doc, mem_doc, write_log>>

RaceNext ==
    \/ \E p \in Processes : LoadState(p)
    \/ \E p \in Processes : VisitSite(p)
    \/ \E p \in Processes : OpenForWrite(p)
    \/ \E p \in Processes : DumpState(p)
    \/ \E p \in Processes : NextVisit(p)

SpecRace == RaceInit /\ [][RaceNext]_vars

(***************************************************************************)
(* parse_time_slot on its own, on header texts put together from their     *)
(* parts: what precedes the range, the start time written with or without  *)
(* a blank before its meridiem, the separator and the end time.            *)
(***************************************************************************)
Headers ==
    [lead : {"", "Program Instance\n", "  "},
     hour : {"0", "7", "07", "12", "13"},
     minute : {"00", "30", "75"},
     gap : {"", " "},
     meridiem : {"AM", "PM", "am"},
     dash : {" - ", "-", " to "},
     until : {"8:00 AM", ""}]

\* the inner text of the header
HeaderText(h) ==
    h.lead \o h.hour \o ":" \o h.minute \o h.gap \o h.meridiem \o h.dash
        \o h.until

ParseInit ==
    /\ EngineIdle
    /\ SlotsIdle
    /\ CancelIdle
    /\ DatesIdle
    /\ AuthIdle
    /\ RunIdle
    /\ SchedIdle
    /\ RaceIdle
    /\ TripIdle
    /\ pc = "parse"
    /\ header \in Headers
    /\ parsed = None

\* parse_time_slot(time_text)
ParseTimeSlot ==
    /\ pc = "parse"
    /\ parsed' = parse_time_slot(HeaderText(header))
    /\ pc' = "parsed"
    /\ UNCHANGED <<engineRest, slotVars, cancelVars, dateVars, authVars,
                   runVars, schedVars, raceVars, tripVars, header>>

ParseNext == ParseTimeSlot

SpecParse == ParseInit /\ [][ParseNext]_vars

(***************************************************************************)
(* A session file loaded and saved again at once: create_browser_context   *)
(* followed by save_browser_state on the context it returned, with no      *)
(* navigation in between.  The browser keeps what new_context was given    *)
(* and storage_state reports it.                                           *)
(***************************************************************************)
Cookies == {"session", "csrf", "consent", "locale", "device"}

\* the files the cycle can start from: every well-formed document, and a
\* file that cannot be read
TripFiles == {WholeFile(doc) : doc \in SUBSET Cookies} \cup {PartialFile}

besideTrip ==
    <<engineRest, slotVars, cancelVars, dateVars, authVars, runVars,
      schedVars, raceVars, parseVars>>

TripInit ==
    /\ EngineIdle
    /\ SlotsIdle
    /\ CancelIdle
    /\ DatesIdle
    /\ AuthIdle
    /\ RunIdle
    /\ SchedIdle
    /\ RaceIdle
    /\ ParseIdle
    /\ pc = "create context"
    /\ session_doc \in TripFiles
    /\ trip_file = session_doc
    /\ trip_context = {}

\* auth.py lines 26-51
TripCreateContext ==
    /\ pc = "create context"
    /\ trip_context' = ContextFrom(trip_file)
    /\ pc' = "save state"
    /\ UNCHANGED <<besideTrip, session_doc, trip_file>>

\* auth.py lines 55-57 and 60-61: storage_state() or open() raises and the
\* handler logs it, or the file is opened for writing, which empties it
TripOpenFile ==
    /\ pc = "save state"
    /\ \/ /\ pc' = "save failed"
          /\ UNCHANGED trip_file
       \/ /\ pc' = "dump"
          /\ trip_file' = PartialFile
    /\ UNCHANGED <<besideTrip, session_doc, trip_context>>

\* auth.py lines 58-61: json.dump writes the state, or raises into the
\* handler and leaves what it had written
TripDump ==
    /\ pc = "dump"
    /\ \/ /\ pc' = "saved"
          /\ trip_file' = WholeFile(StorageState(trip_context, "cycle"))
       \/ /\ pc' = "save failed"
          /\ UNCHANGED trip_file
    /\ UNCHANGED <<besideTrip, session_doc, trip_context>>

TripNext ==
    \/ TripCreateContext
    \/ TripOpenFile
    \/ TripDump

SpecTrip == TripInit /\ [][TripNext]_vars

(***************************************************************************)
(* The writers of the session file: run_booking and authenticate_only,    *)
(* the two interactive tools and the keep-alive visit.                     *)
(***************************************************************************)

\* availability.py check_availability and manual_mode.py setup: both call
\* ensure_authenticated with headless=False
Tools == {"check_availability", "manual_mode"}

\* availability.py lines 24-31 and manual_mode.py lines 33-40: the browser
\* is launched with headless=False
ToolInit ==
    /\ EngineIdle
    /\ SlotsIdle
    /\ CancelIdle
    /\ DatesIdle
    /\ AuthIdle
    /\ SchedIdle
    /\ RaceIdle
    /\ UnitIdle
    /\ pc = "context"
    /\ mode \in Tools
    /\ headless = FALSE
    /\ session_file \in {"absent", "stored", "corrupt"}
    /\ context = None
    /\ browser = "open"
    /\ checks = 0
    /\ waits = <<>>
    /\ elapsed = 0
    /\ check_count = 0
    /\ reloads = 0
    /\ saves = 0
    /\ ensure_ret = None
    /\ booking = None
    /\ booking_success = FALSE
    /\ error_message = None
    /\ notifications = <<>>
    /\ returning = FALSE
    /\ run_ret = None
    /\ exit_status = NoStatus

\* availability.py lines 33-39 and manual_mode.py lines 43-51: the tool
\* returns when ensure_authenticated returned False, saves the state when
\* it returned True; an exception leaves the tool
ToolAfterEnsure ==
    /\ pc = "ensured"
    /\ mode \in Tools
    /\ IF ensure_ret = "True"
       THEN /\ \E how \in SaveOutcomes :
                 session_file' = save_browser_state(session_file, how)
            /\ saves' = saves + 1
            /\ pc' = "tool ready"
       ELSE /\ pc' = "tool left"
            /\ UNCHANGED <<session_file, saves>>
    /\ UNCHANGED <<besideRun, mode, headless, context, browser, checks,
                   waits, elapsed, check_count, reloads, ensure_ret, booking,
                   booking_success, error_message, notifications, returning,
                   run_ret, exit_status>>

\* auth_keepalive.py lines 34-41: the visit is always headless
KeepInit ==
    /\ EngineIdle
    /\ SlotsIdle
    /\ CancelIdle
    /\ DatesIdle
    /\ AuthIdle
    /\ SchedIdle
    /\ RaceIdle
    /\ UnitIdle
    /\ pc = "visit"
    /\ mode = "keep_alive"
    /\ headless = TRUE
    /\ session_file \in {"absent", "stored", "corrupt"}
    /\ context = None
    /\ browser = "none"
    /\ checks = 0
    /\ waits = <<>>
    /\ elapsed = 0
    /\ check_count = 0
    /\ reloads = 0
    /\ saves = 0
    /\ ensure_ret = None
    /\ booking = None
    /\ booking_success = FALSE
    /\ error_message = None
    /\ notifications = <<>>
    /\ returning = FALSE
    /\ run_ret = None
    /\ exit_status = NoStatus

\* how the opening of the visit can go
VisitOpenings == {"ok", "launch raises", "goto raises"}

\* auth_keepalive.py lines 34-53 and 130-137: launch, context, page and
\* page.goto; an exception ends the visit with False
KeepOpen ==
    /\ pc = "visit"
    /\ \E how \in VisitOpenings :
         /\ browser' = CASE how = "ok" -> "open"
                         [] how = "launch raises" -> "none"
                         [] how = "goto raises" -> "closed"
         /\ context' = IF how = "launch raises" THEN context
                       ELSE create_browser_context(session_file)
         /\ run_ret' = IF how = "ok" THEN run_ret ELSE "False"
         /\ pc' = IF how = "ok" THEN "initial check" ELSE "visit over"
    /\ UNCHANGED <<besideRun, mode, headless, session_file, checks, waits,
                   elapsed, check_count, reloads, saves, ensure_ret, booking,
                   booking_success, error_message, notifications, returning,
                   exit_status>>

\* auth_keepalive.py lines 55-63: is_auth_initial; ensure_ret holds is_auth
KeepInitialCheck ==
    /\ pc = "initial check"
    /\ \E ok \in AuthOutcomes :
         /\ ensure_ret' = IF ok THEN "True" ELSE "False"
         /\ pc' = IF ok THEN "keep save" ELSE "sign in"
    /\ checks' = checks + 1
    /\ UNCHANGED <<besideRun, mode, headless, session_file, context, browser,
                   waits, elapsed, check_count, reloads, saves, booking,
                   booking_success, error_message, notifications, returning,
                   run_ret, exit_status>>

\* what the "Sign in" element does: it is clicked, it is not visible, or
\* looking for it (or the click, or the wait) raises
SignInOutcomes == {"clicked", "hidden", "raises"}

\* auth_keepalive.py lines 71-100: the automatic re-authentication; only a
\* click is followed by the second is_authenticated check
KeepSignIn ==
    /\ pc = "sign in"
    /\ \E shown \in SignInOutcomes :
         IF shown = "clicked"
         THEN /\ \E ok \in AuthOutcomes :
                   ensure_ret' = IF ok THEN "True" ELSE "False"
              /\ checks' = checks + 1
              /\ waits' = Append(waits, 3000)
         ELSE UNCHANGED <<ensure_ret, checks, waits>>
    /\ pc' = "keep save"
    /\ UNCHANGED <<besideRun, mode, headless, session_file, context, browser,
                   elapsed, check_count, reloads, saves, booking,
                   booking_success, error_message, notifications, returning,
                   run_ret, exit_status>>

\* variant: the visit saves the state whatever the checks said
is_auth_saves_always(is_auth) == TRUE

\* auth_keepalive.py line 102: `if is_auth:'
is_auth_saves(is_auth) == is_auth = "True"

\* auth_keepalive.py lines 102-130: the state is saved when is_auth, the
\* browser is closed and is_auth returned
KeepSave ==
    /\ pc = "keep save"
    /\ IF is_auth_saves(ensure_ret)
       THEN /\ \E how \in SaveOutcomes :
                 session_file' = save_browser_state(session_file, how)
            /\ saves' = saves + 1
       ELSE UNCHANGED <<session_file, saves>>
    /\ browser' = "closed"
    /\ run_ret' = ensure_ret
    /\ pc' = "visit over"
    /\ UNCHANGED <<besideRun, mode, headless, context, checks, waits,
                   elapsed, check_count, reloads, ensure_ret, booking,
                   booking_success, error_message, notifications, returning,
                   exit_status>>

WriteInit == MainInit \/ ToolInit \/ KeepInit

WriteNext ==
    \/ MainNext
    \/ ToolAfterEnsure
    \/ KeepOpen
    \/ KeepInitialCheck
    \/ KeepSignIn
    \/ KeepSave

SpecWrite == WriteInit /\ [][WriteNext]_vars


(***************************************************************************)
(* Properties.                                                             *)
(***************************************************************************)
Last(q) == q[Len(q)]

AllOutcomes(what) == \A i \in 1..Len(outcomes) : outcomes[i] = what

BookPcs == {Steps[n] : n \in 1..Len(Steps)}

\* the look-ups and clicks of a complete checkout
FullCheckout ==
    <<Find("select"), Click("select"), Find("register"), Click("register"),
      Find("proceed"), Click("proceed"), Find("checkout"), Click("checkout"),
      Find("final"), Click("final")>>

\* the step the k-th event of a call belongs to
StepOfEvent(k) == Steps[(k + 1) \div 2]

\* C1: when the court loop of an attempt ends and no court of the attempt
\* yielded a matching slot, the call returns None in that very step, with no
\* retry delay and no further navigation to the listing page, whatever
\* max_retries is; and nothing happens after the return.
C1_NoMatchReturnsNull ==
    [][/\ (AtDecision /\ matched = {})
            => /\ pc' = "done"
               /\ result' = Null
               /\ delays' = delays
               /\ listing_navs' = listing_navs
       /\ pc = "done" => UNCHANGED <<delays, listing_navs, result>>]_vars

C1_Witness ==
    /\ pc = "done"
    /\ max_retries = MaxRetries
    /\ outcomes = <<"no_match">>
    /\ Len(visited) = 2
    /\ raised # {}

\* C2: when every attempt found a matching slot and failed to book it, the
\* call ends with None after exactly max_retries attempts (listing
\* navigations), with a retry delay between successive attempts and none
\* after the last.
C2_FailedCheckoutsExhaustRetries ==
    (pc = "done" /\ AllOutcomes("found_failed"))
        => /\ result = Null
           /\ Len(outcomes) = max_retries
           /\ listing_navs = max_retries
           /\ delays = IF max_retries = 0 THEN 0 ELSE max_retries - 1

C2_Witness ==
    /\ pc = "done"
    /\ max_retries = MaxRetries
    /\ Len(outcomes) = MaxRetries
    /\ AllOutcomes("found_failed")

\* C3: when the court loop of an attempt ends without a booking, a court of
\* the attempt raised an exception and fewer than max_retries attempts
\* were made, the call does not return there (another attempt follows),
\* whether or not a court yielded a matching slot.
C3_ExceptionAlwaysRetried ==
    [][(AtDecision /\ raised # {} /\ attempt + 1 < max_retries)
           => pc' # "done"]_vars

\* C4: the courts are visited in discovery order; book_slot is called only
\* for a court whose discovery returned a match, with the first slot of
\* that list; and the result is that slot's time and court name with the
\* target date, returned from the court that booked, no court being
\* visited after it.
C4_FirstMatchWins ==
    /\ \A i \in 1..Len(visited) : i <= Len(courts) /\ visited[i] = courts[i]
    /\ \A i \in 1..Len(checkouts) : checkouts[i] \in matched
    /\ pc \in BookPcs
         => /\ available_slots # <<>>
            /\ slot = available_slots[1]
            /\ Last(checkouts) = Last(visited)
    /\ result # Null
         => /\ pc = "done"
            /\ slot = available_slots[1]
            /\ result = [time |-> slot.time, court_name |-> slot.court_name,
                         date |-> get_target_date(test_mode)]
            /\ Last(checkouts) = Last(visited)

C4_Witness ==
    /\ result # Null
    /\ courts = <<"Court A", "Court B">>
    /\ visited = courts
    /\ checkouts = <<"Court B">>
    /\ Len(available_slots) = 2

\* C5: a result is returned only after the five clicks of a complete
\* checkout of the returned slot, none of them timing out or raising.
C5_ResultOnlyAfterFullCheckout ==
    result # Null
        => /\ events = FullCheckout
           /\ book_ret = "True"
           /\ result.time = slot.time

C5_Witness == result # Null /\ pc = "done" /\ events = FullCheckout

\* C6: within one call of book_slot every control is looked up and then
\* clicked, in the order select, register, proceed-to-checkout, checkout,
\* final checkout, each at most once; the only other thing that can happen
\* is the event that ends the call (a control not appearing, a click
\* raising, the position being out of range).
C6_LinearCheckout ==
    /\ Len(events) <= Len(FullCheckout) 
    /\ \A k \in 1..Len(events) :
         \/ events[k] = FullCheckout[k]
         \/ /\ k = Len(events)
            /\ pc \notin BookPcs
            /\ events[k] \in
                 IF k % 2 = 1
                 THEN {TimedOut(StepOfEvent(k)), OutOfRange(StepOfEvent(k))}
                 ELSE {ClickRaised(StepOfEvent(k))}
    /\ pc \in BookPcs => Len(events) = 2 * (StepNo(pc) - 1)

C6_Witness == pc = "final" /\ Len(events) = 8

\* C7: when the control of a step does not appear within its timeout,
\* book_slot returns False: the timeout is the last thing the call does
\* (no later look-up or click, nothing undone), all earlier steps were
\* clicked in order, and the exception does not reach attempt_booking.
C7_TimeoutAbortsSlot ==
    \A k \in 1..Len(events) : \A n \in 1..Len(Steps) :
        events[k] = TimedOut(Steps[n])
            => /\ k = Len(events)
               /\ k = 2 * n - 1
               /\ SubSeq(events, 1, k - 1) = SubSeq(FullCheckout, 1, k - 1)
               /\ book_ret = "False"
               /\ booking_error
               /\ Last(checkouts) \notin raised
               /\ pc \notin BookPcs
               /\ result = Null

C7_Witness ==
    /\ Len(events) = 7
    /\ events[7] = TimedOut("checkout")
    /\ pc = "court"

\* C8: the select control that is clicked belongs to a card
\* whose time text, as currently rendered, is the time text of the slot
\* being booked.
C8_SelectClickOnExpectedCard ==
    (Len(events) >= 2 /\ events[2] \in {Click("select"), ClickRaised("select")})
        => select_card_time = slot.time

\* C9: with a court preference naming one court (test mode
\* apart, which has its own target court), no other court is navigated to.
C9_PreferenceNarrowsCourts ==
    (~test_mode.enabled /\ court_preference # "any" /\ pc # "start")
        => \A i \in 1..Len(visited) : visited[i] = court_preference

\* the card at position `index' of the page shows the availability the
\* slot list promises: no 'No Spots Left' in its spots text, and a select
\* control that is not disabled
ShownAsBookable(index) ==
    /\ index \in 1..Len(page.time_slots)
    /\ index \in 1..Len(page.select_buttons)
    /\ ~Contains("No Spots Left", page.time_slots[index].spots)
    /\ ~page.select_buttons[index]

\* C10: neither find_available_slots nor find_all_available_slots_for_date
\* lists a slot whose card says 'No Spots Left' or whose select control is
\* disabled; every listed slot carries the position and the time text of
\* a card of the page.
C10_UnavailableNeverListed ==
    /\ pc \in {"enumerated", "listed"} =>
         \A i \in 1..Len(matching_slots) :
             /\ ShownAsBookable(matching_slots[i].index)
             /\ matching_slots[i].time =
                  InnerTextStrip(page.time_slots[matching_slots[i].index].time)
    /\ pc = "listed" =>
         \A i \in 1..Len(all_available_slots) :
             /\ ShownAsBookable(all_available_slots[i].index)
             /\ all_available_slots[i].time =
                  InnerTextStrip(
                      page.time_slots[all_available_slots[i].index].time)

C10_Witness ==
    /\ pc = "listed"
    /\ page.time_slots = <<CardFull7, CardOpen7>>
    /\ page.select_buttons = <<FALSE, FALSE>>
    /\ Len(matching_slots) = 1
    /\ matching_slots[1].index = 2
    /\ all_available_slots = matching_slots

\* the enumeration of find_all_available_slots_for_date took place
Enumerated == pc \in {"listed", "refiltered"} /\ nav # Null /\ nav.ret

\* the card at position `index' is in the available-slot set
Listed(index) ==
    \E k \in 1..Len(all_available_slots) : all_available_slots[k].index = index

\* the card at position `index' has a select control
Paired(index) ==
    index \in 1..Len(page.time_slots) /\ index <= Len(page.select_buttons)

\* the availability text of the card can be read
HasSpotsText(index) == page.time_slots[index].spots \notin {NoElem, Raises}

\* C11 as stated (read for the cards that have an availability text): a
\* card paired with a select control is in the available-slot set if and
\* only if its text is free of the phrase and its control is not disabled.
C11_AvailableIffTextAndControl ==
    Enumerated =>
        \A i \in 1..Len(page.time_slots) :
            (Paired(i) /\ HasSpotsText(i)) => (Listed(i) <=> ShownAsBookable(i))

\* C11 as amended: for a card paired with a select control whose spots tag
\* and instance-time element are there and read without error, membership
\* in the available-slot set is decided by the text and the control alone;
\* any other card is not in the set.
C11_AvailableIffReadableTextAndControl ==
    Enumerated =>
        \A i \in 1..Len(page.time_slots) :
            Listed(i) <=> /\ Paired(i)
                          /\ HasSpotsText(i)
                          /\ page.time_slots[i].time # NoElem
                          /\ ShownAsBookable(i)

C11_Witness ==
    /\ Enumerated
    /\ page.time_slots = <<CardNoTime, CardOpen8>>
    /\ page.select_buttons = <<FALSE, FALSE>>
    /\ Len(all_available_slots) = 1
    /\ Listed(2)

\* the start time a card's time text stands for, on the 24-hour clock
ExpectedStart(time_text) ==
    CASE time_text = "7:00 AM - 8:00 AM" -> "07:00"
      [] time_text = "Program Instance\n8:00 AM - 9:00 AM" -> "08:00"
      [] time_text = "8:00 AM - 9:00 AM" -> "08:00"
      [] time_text = "1:30 PM - 2:30 PM" -> "13:30"
      [] OTHER -> None

IsTarget(s) ==
    /\ ExpectedStart(s.time) # None
    /\ \E n \in 1..Len(targets) : targets[n] = ExpectedStart(s.time)

\* C12: the list find_available_slots returns is the available slots whose
\* start time, as 24-hour HH:MM, equals a target string, in page order; a
\* slot whose time text does not parse is available but never matches.
C12_ExactTargetTimeMatch ==
    (Enumerated /\ targets # NoneTimes) =>
        /\ matching_slots = SelectSeq(all_available_slots, IsTarget)
        /\ \A i \in 1..Len(matching_slots) :
               ExpectedStart(matching_slots[i].time) # None

C12_Witness ==
    /\ Enumerated
    /\ page.time_slots = <<CardTBD, CardOpen1330>>
    /\ targets = <<"13:30">>
    /\ Len(all_available_slots) = 2
    /\ Len(matching_slots) = 1
    /\ matching_slots[1].index = 2

\* C13: the target-time filter applied to the list it returned, with the
\* same targets, returns that list.
C13_FilterIdempotent ==
    pc = "refiltered" => refiltered = matching_slots

C13_Witness ==
    /\ pc = "refiltered"
    /\ Len(matching_slots) = 2
    /\ Len(targets) = 2
    /\ matching_slots[1].time # matching_slots[2].time
    /\ refiltered = matching_slots

\* the call of cancel_booking made the interaction `what'
Did(what) == \E k \in 1..Len(ui) : ui[k] = what

\* C14: cancel_booking on a booking without a registration id (None or
\* empty) returns False and makes no page interaction at all.
C14_NoRegIdNoInteraction ==
    (pc = "cancelled" /\ booking_info.reg_id \in {None, ""})
        => cancel_ret = FALSE /\ ui = <<>>

C14_Witness ==
    /\ pc = "cancelled"
    /\ booking_info.reg_id = ""
    /\ ~bookings_page.on_page
    /\ bookings_page.card = "card"
    /\ cancel_ret = FALSE

\* the registration id is among the bookings listed after the reload
StillListed ==
    \E i \in 1..Len(bookings_page.relisted) :
        bookings_page.relisted[i] = booking_info.reg_id

\* the confirm click and the reload after it took place
ConfirmedAndReloaded ==
    \E k \in 1..(Len(ui) - 1) : ui[k] = "click confirm" /\ ui[k + 1] = "reload"

\* C15 as stated: cancel_booking returns True only after the confirm click
\* and the reload, and only if the id is not among the bookings listed
\* again or the card of the id is absent from the page or not visible.
C15_SuccessOnlyWhenVerifiedGone ==
    (pc = "cancelled" /\ cancel_ret = TRUE)
        => /\ ConfirmedAndReloaded
           /\ \/ ~StillListed
              \/ bookings_page.card_after \in {"absent", "hidden"}

\* C15 as amended: ... or the look-up of the card raised, in which case
\* success is assumed although the id is still listed.
C15_SuccessWhenGoneOrCheckRaised ==
    (pc = "cancelled" /\ cancel_ret = TRUE)
        => /\ ConfirmedAndReloaded
           /\ Did("get_my_bookings")
           /\ \/ ~StillListed
              \/ bookings_page.card_after \in {"absent", "hidden", "raises"}

C15_Witness ==
    /\ pc = "cancelled"
    /\ cancel_ret = TRUE
    /\ StillListed
    /\ bookings_page.card_after = "hidden"

\* the 'Cancel Registration' item carries the class disabled or text-muted
LinkDisabled ==
    /\ bookings_page.link_class # None
    /\ \/ Contains("disabled", bookings_page.link_class)
       \/ Contains("text-muted", bookings_page.link_class)

\* C16: when the 'Cancel Registration' item is disabled, cancel_booking
\* returns False and clicks neither the item nor the confirm button.
C16_DisabledCancelAborts ==
    (pc = "cancelled" /\ LinkDisabled)
        => /\ cancel_ret = FALSE
           /\ ~Did("click cancel")
           /\ ~Did("click confirm")


(***************************************************************************)
(* Navigation to the target date                                           *)
(***************************************************************************)
\* how many of the clicks of the call were on `what'
ClicksOn(what) == Cardinality({k \in 1..Len(nav.clicks) : nav.clicks[k] = what})

FirstAttemptSucceeded ==
    /\ ~date_page.no_instances
    /\ date_page.target_first
    /\ date_page.first_click = "ok"

\* the control did not show within the first wait, the pager is there and
\* is clicked, the control shows within the second wait and takes its click
RevealedByPager ==
    /\ ~date_page.no_instances
    /\ ~date_page.target_first
    /\ date_page.right_arrow
    /\ date_page.target_second
    /\ date_page.second_click = "ok"

\* C17: when the target date's control does not show within the first wait
\* and shows after the pager is clicked, navigate_to_target_date returns
\* True with exactly one click on the pager, made before the click on the
\* target date that succeeds; the pager is not clicked when the first
\* attempt succeeds, and is never clicked more than once in a call.
C17_PagerClickedOnceOnFallback ==
    pc = "navigated"
        => /\ RevealedByPager
                => /\ nav.ret = TRUE
                   /\ ClicksOn("right_arrow") = 1
                   /\ ClicksOn("target") = 1
                   /\ Last(nav.clicks) = "target"
           /\ FirstAttemptSucceeded
                => /\ nav.ret = TRUE
                   /\ ClicksOn("right_arrow") = 0
           /\ ClicksOn("right_arrow") <= 1

C17_Witness ==
    /\ pc = "navigated"
    /\ RevealedByPager
    /\ date_page.next_day
    /\ nav = [ret |-> TRUE, clicks |-> <<"next_day", "right_arrow", "target">>]


\* the step is the visit of a court that shows 'no instances available'
SkipsCourt ==
    /\ pc = "court"
    /\ court_idx <= Len(courts)
    /\ visited' = Append(visited, courts[court_idx])
    /\ court_steps' = CourtSteps("no instances")

\* C18: on a page that shows 'no instances available',
\* navigate_to_target_date returns False without a click on a date control
\* or the pager; attempt_booking leaves such a court without date
\* navigation, slot enumeration or checkout, and the court changes neither
\* found_any_slots nor booking_error.
C18_NoInstancesFastSkip ==
    /\ [](pc = "navigated" /\ date_page.no_instances
            => nav = [ret |-> FALSE, clicks |-> <<>>])
    /\ [][SkipsCourt
            => /\ found_any_slots' = found_any_slots
               /\ booking_error' = booking_error
               /\ checkouts' = checkouts
               /\ matched' = matched
               /\ raised' = raised
               /\ court_idx' = court_idx + 1
               /\ pc' = "court"]_vars
    /\ [](court_steps = CourtSteps("no instances")
            => \A k \in 1..Len(court_steps) :
                   court_steps[k] \notin {"navigate_to_target_date",
                                          "find_available_slots", "book_slot"})

\* the only court shows 'no instances available': attempt_booking returns
\* None after one attempt, with retries left
C18_Witness ==
    /\ pc = "done"
    /\ max_retries = MaxRetries
    /\ outcomes = <<"no_match">>
    /\ Len(visited) = 1
    /\ court_steps = CourtSteps("no instances")
    /\ ~found_any_slots
    /\ ~booking_error


(***************************************************************************)
(* The dates to check                                                      *)
(***************************************************************************)
\* the dates that have a visible control that is not a mobile one
VisibleControlDates ==
    {dates_page.date_buttons[k].day :
        k \in {j \in 1..Len(dates_page.date_buttons) :
                 /\ dates_page.date_buttons[j].visible
                 /\ ~dates_page.date_buttons[j].mobile
                 /\ dates_page.date_buttons[j].day # NoDay}}

\* q lists exactly the dates of S, in ascending order
AscendingListOf(q, S) ==
    /\ {q[k] : k \in 1..Len(q)} = S
    /\ \A k \in 1..(Len(q) - 1) : q[k] < q[k + 1]

\* C19: get_available_dates returns the dates of [today+1, today+days_ahead]
\* that have a visible control, in ascending order; it returns the whole
\* range only when the page has no visible date control at all or the
\* look-up raises, and otherwise returns no date without a visible control.
C19_VisibleDatesOfTheRange ==
    pc = "dated"
        => IF dates_page.raises \/ VisibleControlDates = {}
           THEN available_dates = all_dates(days_ahead)
           ELSE AscendingListOf(available_dates,
                                (1..days_ahead) \cap VisibleControlDates)


(***************************************************************************)
(* The authentication check                                                *)
(***************************************************************************)
ProfileVisible == auth_page.profile = "visible"

SignInVisible == auth_page.sign_in = "visible"

\* the URL contains 'login' or 'signin', in whatever case
UrlOfLogin ==
    /\ auth_page.url # Raises
    /\ \/ Contains("login", Lower(auth_page.url))
       \/ Contains("signin", Lower(auth_page.url))

\* the layers after the logged-in marker all speak for a session
LaterLayersPositive ==
    /\ ~SignInVisible
    /\ auth_page.url # Raises
    /\ ~UrlOfLogin
    /\ auth_page.user_name = "visible"

\* a probe that is_authenticated reaches raises inside its own handler
ProbeRaised ==
    \/ auth_page.profile = "raises"
    \/ /\ ~ProfileVisible
       /\ \/ auth_page.sign_in = "raises"
          \/ /\ ~SignInVisible
             /\ auth_page.url # Raises
             /\ ~UrlOfLogin
             /\ auth_page.user_name = "raises"

\* the read of the URL raises, outside the handlers of the probes
UrlRaised == ~ProfileVisible /\ ~SignInVisible /\ auth_page.url = Raises

\* true only on a positive signal; 'Sign in' without the logged-in marker
\* is final; no positive signal is False
AuthLayers ==
    /\ auth_ret = TRUE => ProfileVisible \/ LaterLayersPositive
    /\ ~ProfileVisible /\ SignInVisible => auth_ret = FALSE
    /\ ~ProfileVisible /\ auth_page.user_name # "visible" => auth_ret = FALSE

\* C20 as stated: is_authenticated returns True only if #btnProfile is
\* visible, or 'Sign in' is not visible, the URL contains neither 'login'
\* nor 'signin' and the user-name text is visible; 'Sign in' visible without
\* #btnProfile gives False whatever the later layers show; no positive
\* signal gives False, and so does any exception.
C20_LayeredFailSafe ==
    pc = "authenticated"
        => /\ AuthLayers
           /\ ProbeRaised \/ UrlRaised => auth_ret = FALSE

\* C20, amended: as above, but only an exception outside the probes (the
\* read of the URL) gives False; a probe that raises counts as its marker
\* not being visible and the next layer decides.
C20_LayeredFailSafeOutsideProbes ==
    pc = "authenticated"
        => /\ AuthLayers
           /\ UrlRaised => auth_ret = FALSE
           /\ auth_page.profile = "raises" /\ LaterLayersPositive
                => auth_ret = TRUE
           /\ ~ProfileVisible /\ auth_page.sign_in = "raises"
                /\ LaterLayersPositive => auth_ret = TRUE

\* the #btnProfile probe raises and the user-name text carries the call
C20_Witness ==
    /\ pc = "authenticated"
    /\ auth_page.profile = "raises"
    /\ auth_page.sign_in = "hidden"
    /\ auth_page.url = "https://rec/Program"
    /\ auth_page.user_name = "visible"
    /\ auth_ret = TRUE


(***************************************************************************)
(* Authentication of a run                                                 *)
(***************************************************************************)
\* ensure_authenticated is under way or has ended
InEnsure == pc \in {"check1", "check2", "check3", "poll", "ensured"}

\* the loop of authenticate has not been entered
NeverPolled == elapsed = 0 /\ check_count = 0 /\ reloads = 0

DeclaredUnauthenticated ==
    \/ pc = "ensured" /\ ensure_ret = "False" /\ check_count = 0
    \/ pc = "poll" /\ check_count = 0

\* the first check that succeeds ends the call with True
ReturnsAtFirstSuccess ==
    pc = "ensured" /\ ensure_ret = "True" /\ check_count = 0
        => checks \in 1..3 /\ Len(waits) = checks - 1

\* C22 as stated: ensure_authenticated returns True at the first check that
\* succeeds, and before it finds the session unauthenticated (False in
\* headless mode, the interactive wait otherwise) it has made three
\* is_authenticated checks with strictly increasing waits between them.
C22_ThreeChecksIncreasingWaits ==
    /\ ReturnsAtFirstSuccess
    /\ DeclaredUnauthenticated
        => /\ checks = 3
           /\ Len(waits) = 2
           /\ waits[1] < waits[2]

\* C22, amended: two checks 1000 ms apart are made in every mode; the third,
\* 3000 ms later, only in headless mode with a state file.
C22_ThirdCheckOnlyHeadlessWithFile ==
    /\ ReturnsAtFirstSuccess
    /\ DeclaredUnauthenticated
        => IF LongerWaitApplies
           THEN checks = 3 /\ waits = <<1000, 3000>>
           ELSE checks = 2 /\ waits = <<1000>>

\* not headless: the interactive wait starts after two checks
C22_Witness ==
    /\ pc = "poll"
    /\ ~Headless
    /\ check_count = 0
    /\ checks = 2
    /\ waits = <<1000>>

\* C23: in non-headless mode authenticate polls every 3 seconds for at most
\* 300 seconds, so at most 100 times, with a reload on every 5th poll, and
\* the process always gets past it; after polling, ensure_authenticated
\* returns True only from a poll that found the session authenticated, with
\* save_browser_state called before the return, and returns False with no
\* save only at the ceiling.
C23_InteractiveWaitBounded ==
    /\ [](/\ elapsed = wait_interval * check_count
          /\ elapsed <= max_wait_time
          /\ check_count <= 100
          /\ reloads = check_count \div 5
          /\ pc = "poll" => ~Headless /\ elapsed < max_wait_time
          /\ pc = "ensured" /\ check_count > 0 /\ ensure_ret = "True"
                => saves = 1
          /\ pc = "ensured" /\ check_count > 0 /\ ensure_ret = "False"
                => saves = 0 /\ check_count = 100 /\ elapsed = max_wait_time)
    /\ [][pc = "poll" /\ pc' = "poll" => check_count' = check_count + 1]_vars
    /\ [][pc = "poll" /\ ensure_ret' = "True" => saves' = saves + 1]_vars
    /\ <>(pc = "exited")

\* the 100th poll is the first to find the session authenticated
C23_Witness ==
    /\ pc = "ensured"
    /\ ensure_ret = "True"
    /\ check_count = 100
    /\ reloads = 20
    /\ saves = 1


(***************************************************************************)
(* The session file, the notification and the exit status of a run         *)
(***************************************************************************)
\* C24: in every run in which ensure_authenticated returns True,
\* save_browser_state is called before the run ends, also when the session
\* was valid from the start and nobody signed in.
C24_SavedAfterEveryAuthenticatedRun ==
    pc = "exited" /\ ensure_ret = "True" => saves >= 1

\* the step is run_booking taking a True from ensure_authenticated
TakesAuthenticated ==
    pc = "ensured" /\ mode # "authenticate" /\ ensure_ret = "True"

\* C25: when the state file cannot be loaded, create_browser_context gives
\* a fresh context and raises nothing; save_browser_state raises nothing
\* when it fails, and a booking run that has authenticated goes on to
\* attempt_booking all the same.
C25_PersistenceFailuresDegrade ==
    /\ [][pc = "context" /\ session_file = "corrupt"
            => context' = "fresh" /\ pc' = "ensure"]_vars
    /\ [][TakesAuthenticated
            => /\ saves' = saves + 1
               /\ pc' = "booking"
               /\ error_message' = error_message]_vars
    /\ [](pc = "booking" => saves >= 1 /\ error_message = None)

\* the file could not be loaded (headless made a third check, so there was
\* a file, yet the context is fresh), the save has failed too, and the run
\* has booked
C25_Witness ==
    /\ pc = "close"
    /\ Headless
    /\ checks = 3
    /\ context = "fresh"
    /\ saves = 1
    /\ session_file = "corrupt"
    /\ booking = "result"

\* a stage of the run has failed
StageFailed ==
    \/ browser = "none"
    \/ ensure_ret \in {"False", "raised"}
    \/ booking = "raised"

\* C26: on every path through run_booking the notification is sent exactly
\* once before run_booking returns, with the success flag that run_booking
\* returns and, when a stage failed, the error message of that stage.
C26_EveryRunNotifies ==
    pc = "exit"
        => /\ Len(notifications) = 1
           /\ notifications[1].success = (run_ret = "True")
           /\ StageFailed => notifications[1].error_message # None

\* an exception was raised in the run before attempt_booking could return
RaisedBeforeBooking ==
    \/ browser = "none"
    \/ ensure_ret = "raised"
    \/ booking = "raised"

\* browser.close() raised
CloseRaised == browser = "open"

\* a one-shot run has exited
OneShotExited == pc = "exited" /\ mode \in {"default", "test_now"}

\* C27 as stated: in the one-shot modes the exit status is 0 if and only if
\* attempt_booking returned a booking result; it is not 0 when
\* authentication failed, when no booking was made, and when any exception
\* was raised during the run.
C27_ExitStatusReflectsBooking ==
    OneShotExited
        => /\ exit_status = 0 <=> booking = "result"
           /\ ensure_ret = "False" => exit_status # 0
           /\ booking \in {None, "none"} => exit_status # 0
           /\ RaisedBeforeBooking \/ CloseRaised => exit_status # 0

\* C27, amended: as above, for the exceptions that keep attempt_booking
\* from returning a result; an exception after the booking was made (from
\* browser.close()) leaves the status 0.
C27_ExitStatusReflectsBookingMade ==
    OneShotExited
        => /\ exit_status \in {0, 1}
           /\ exit_status = 0 <=> booking = "result"
           /\ ensure_ret = "False" => exit_status = 1
           /\ booking \in {None, "none"} => exit_status = 1
           /\ RaisedBeforeBooking => exit_status = 1
           /\ CloseRaised /\ booking = "result" => exit_status = 0

\* the booking is made, browser.close() raises, the status is 0
C27_Witness ==
    /\ OneShotExited
    /\ booking = "result"
    /\ CloseRaised
    /\ error_message = CriticalMessage
    /\ exit_status = 0


(***************************************************************************)
(* Pairing of cards and select controls                                    *)
(***************************************************************************)
\* find_available_slots has returned; its result is not touched afterwards
Matched == pc = "enumerated"

\* the card at position `index' is in the result of find_available_slots
InMatching(index) ==
    \E k \in 1..Len(matching_slots) : matching_slots[k].index = index

\* what the card itself shows makes it a slot to return
CardQualifies(index) ==
    /\ HasSpotsText(index)
    /\ ~Contains("No Spots Left", page.time_slots[index].spots)
    /\ page.time_slots[index].time # NoElem
    /\ time_matches_target(InnerTextStrip(page.time_slots[index].time), targets)

\* C30: cards and select controls are paired by position: the card at
\* position i is judged by the control at position i alone and a card at a
\* position beyond the controls is never in the result; whatever the two
\* counts are, the one pass of find_available_slots ends with the list of
\* the paired cards that qualify, each once.
C30_PairedByPosition ==
    Matched =>
        /\ \A i \in 1..Len(page.time_slots) :
              InMatching(i) <=> /\ i <= Len(page.select_buttons)
                                /\ ~page.select_buttons[i]
                                /\ CardQualifies(i)
        /\ \A k \in 1..Len(matching_slots) :
              /\ matching_slots[k].index \in 1..Len(page.time_slots)
              /\ \A l \in 1..Len(matching_slots) :
                    matching_slots[l].index = matching_slots[k].index => l = k

\* two bookable cards and one control: the first card alone is returned
C30_Witness ==
    /\ pc = "enumerated"
    /\ page = [time_slots |-> <<CardOpen7, CardOpen7>>,
               select_buttons |-> <<FALSE>>]
    /\ targets = <<"07:00">>
    /\ Len(matching_slots) = 1
    /\ matching_slots[1].index = 1


(***************************************************************************)
(* The scheduler                                                           *)
(***************************************************************************)
\* the step starts the job j
Starts(j) == job_state[j] = "due" /\ job_state'[j] = "called"

\* the step is a booking run raising
RunRaises == runs_raised' = runs_raised + 1

\* C28: in one scheduler process the booking runs are strictly sequential:
\* a job is started only when no other is inside its run, the browser of a
\* run is closed before the next job starts, so at most one run and one
\* browser are active at any time; a run that raises leaves the jobs that
\* are due to be run.
C28_RunsStrictlySequential ==
    /\ [](pc \in {"sleep", "run_pending"}
            => /\ Cardinality(ActiveJobs(job_state)) <= 1
               /\ open_browsers <= 1
               /\ open_browsers = 1
                    => \E j \in SchedTimes : job_state[j] = "running"
               /\ pc = "sleep" => ActiveJobs(job_state) = {})
    /\ [][\A j \in DOMAIN job_state :
            Starts(j) => ActiveJobs(job_state) = {} /\ open_browsers = 0]_vars
    /\ [][RunRaises
            => /\ pc' = pc
               /\ \A j \in DOMAIN job_state :
                    job_state[j] = "due" => job_state'[j] = "due"]_vars

\* a run has raised and the next job of the same pass is inside its run
C28_Witness ==
    /\ pc = "run_pending"
    /\ runs_raised = 1
    /\ runs_done = 0
    /\ job_state["07:00"] = "idle"
    /\ job_state["19:00"] = "running"
    /\ open_browsers = 1


(***************************************************************************)
(* The session file under two processes                                    *)
(***************************************************************************)
\* both processes made their context from the stored file before either
\* wrote, each was refreshed, and both have saved
BothSavedFromStored ==
    /\ \A p \in Processes :
         visit_state[p] = "done" /\ mem_doc[p] = StoredDoc \cup {p}
    /\ Len(write_log) = 2

\* C29: nothing protects the session file against concurrent runs: a
\* process that has been refreshed can always start its save, whatever the
\* other process is doing, and a save replaces the file by the whole
\* document of the writer; so whenever the file holds a whole document
\* after a write, it is the document of the process that wrote last, and
\* when both processes had loaded the stored file, the refreshed session of
\* the first writer is not in it.
C29_LastWriterWins ==
    pc = "processes"
        => /\ \A p \in Processes :
                visit_state[p] = "visited" => ENABLED OpenForWrite(p)
           /\ (write_log # <<>> /\ file_doc.whole)
                => file_doc.doc = mem_doc[Last(write_log)]
           /\ (BothSavedFromStored /\ file_doc.whole)
                => /\ write_log[1] # write_log[2]
                   /\ write_log[1] \notin file_doc.doc

\* the keep-alive visit and the booking run both loaded the stored file,
\* the keep-alive visit wrote first, and the file holds the document of the
\* booking run, without the session the keep-alive visit refreshed
C29_Witness ==
    /\ pc = "processes"
    /\ BothSavedFromStored
    /\ write_log = <<"keepalive", "booking">>
    /\ file_doc = WholeFile({"stored", "booking"})
    /\ "keepalive" \in mem_doc["keepalive"]


(***************************************************************************)
(* The court loop after a failed book_slot                                 *)
(***************************************************************************)
\* the step is book_slot ending without a booking
BookSlotFails == pc \in BookPcs /\ pc' = "court"

\* the step takes the retry decision
Decides == pc = "court" /\ Len(outcomes') = Len(outcomes) + 1

\* C31: when book_slot fails on a court, the attempt goes on with the next
\* court: the court loop moves one position, the attempt number stays, and
\* the retry decision is taken only when every court of the attempt has
\* been visited, in discovery order; book_slot can so be called, and the
\* checkout control clicked, on more than one court of one attempt.
C31_FailedSlotMovesToNextCourt ==
    /\ [][BookSlotFails
            => /\ court_idx' = court_idx + 1
               /\ attempt' = attempt
               /\ listing_navs' = listing_navs
               /\ visited' = visited
               /\ result' = Null]_vars
    /\ [][Decides
            => /\ Len(visited) = Len(courts)
               /\ \A i \in 1..Len(courts) : visited[i] = courts[i]]_vars
    /\ [][(pc = "court" /\ pc' \in BookPcs)
            => /\ visited' = Append(visited, courts[court_idx])
               /\ checkouts' = Append(checkouts, courts[court_idx])]_vars

\* the first court's book_slot failed and the checkout control of the
\* second court has been clicked in the same attempt
C31_Witness ==
    /\ pc = "final"
    /\ attempt = 0
    /\ Len(checkouts) = 2
    /\ checkouts[1] # checkouts[2]
    /\ booking_error
    /\ InList(Click("checkout"), events)


(***************************************************************************)
(* Test mode                                                               *)
(***************************************************************************)
\* test mode with its court, its date and its time
FullTestMode ==
    /\ test_mode.enabled
    /\ test_mode.target_court # None
    /\ test_mode.target_date # None
    /\ test_mode.target_time # None

\* the call returned because the test court was not listed
TestCourtMissing ==
    /\ pc = "done"
    /\ outcomes # <<>>
    /\ Last(outcomes) = "test_court_missing"

\* C32: in test mode with a fixed court, date and time the only target time
\* of attempt_booking is the fixed time and its target date the fixed date,
\* no court but the fixed one is navigated to, the slot handed to book_slot
\* starts at the fixed time, and when the fixed court is not among the
\* listed courts the call returns None from that attempt, with no court
\* visited, no delay and no further attempt.
C32_TestModeOverride ==
    (FullTestMode /\ pc # "start")
        => /\ target_times = <<test_mode.target_time>>
           /\ get_target_date(test_mode) = test_mode.target_date
           /\ \A i \in 1..Len(visited) : visited[i] = test_mode.target_court
           /\ \A i \in 1..Len(courts) :
                pc \in BookPcs \cup {"court"} => courts[i] = test_mode.target_court
           /\ pc \in BookPcs
                => time_matches_target(slot.time, <<test_mode.target_time>>)
           /\ result # Null => result.date = test_mode.target_date
           /\ (pc = "attempt" /\ attempt < max_retries)
                => Len(outcomes) = attempt
           /\ TestCourtMissing
                => /\ result = Null
                   /\ ~InList(test_mode.target_court, courts)
                   /\ visited = <<>>
                   /\ Len(outcomes) = attempt + 1
                   /\ listing_navs = attempt + 1
                   /\ delays <= attempt

\* the fixed court is not listed at the first attempt, with attempts to
\* spare: the call has returned None after one listing navigation
C32_Witness ==
    /\ FullTestMode
    /\ TestCourtMissing
    /\ max_retries = MaxRetries
    /\ attempt = 0
    /\ courts = <<"Court B">>
    /\ listing_navs = 1
    /\ delays = 0


(***************************************************************************)
(* Time parsing                                                            *)
(***************************************************************************)
\* the number a text of one or two digits writes
NumberOf(t) ==
    IF Len(t) = 1 THEN DigitVal(Char(t, 1))
    ELSE 10 * DigitVal(Char(t, 1)) + DigitVal(Char(t, 2))

\* the header holds 'H:MM AM/PM - H:MM AM/PM': digits, colon, two digits,
\* AM or PM, a dash and a second time
HasTimeRange(h) ==
    /\ h.meridiem \in {"AM", "PM"}
    /\ h.dash \in {" - ", "-"}
    /\ h.until # ""

\* the start time of the range on the 24-hour clock
StartOn24(h) ==
    [hour |-> IF h.meridiem = "AM"
              THEN (IF NumberOf(h.hour) = 12 THEN 0 ELSE NumberOf(h.hour))
              ELSE (IF NumberOf(h.hour) = 12 THEN 12
                    ELSE NumberOf(h.hour) + 12),
     minute |-> NumberOf(h.minute)]

\* C33: for every header text holding a substring 'H:MM AM/PM - H:MM AM/PM'
\* parse_time_slot yields the start time of the range on the 24-hour clock,
\* whatever surrounds it; for every text without one it returns None.
C33_StartTimeOfEveryRange ==
    pc = "parsed"
        => IF HasTimeRange(header) THEN parsed = StartOn24(header)
           ELSE parsed = Null


(***************************************************************************)
(* The session round trip                                                  *)
(***************************************************************************)
\* save_browser_state has returned
TripOver == pc \in {"saved", "save failed"}

\* C34: for every well-formed session file, making a context from it and
\* saving that context at once leaves a file whose cookie set is the
\* original one or a superset of it.
C34_RoundTripLosesNothing ==
    (TripOver /\ session_doc.whole)
        => /\ trip_file.whole
           /\ session_doc.doc \subseteq trip_file.doc


(***************************************************************************)
(* The empty list of target times                                          *)
(***************************************************************************)
\* the card at position `index' is an available slot: it has a spots text
\* without 'No Spots Left', a time header and an enabled select control
AvailableCard(index) ==
    /\ index <= Len(page.select_buttons)
    /\ ~page.select_buttons[index]
    /\ HasSpotsText(index)
    /\ ~Contains("No Spots Left", page.time_slots[index].spots)
    /\ page.time_slots[index].time # NoElem

\* C35: find_available_slots called with an empty list of target times
\* returns every available slot of the page.
C35_EmptyTargetsMeanAllTimes ==
    (pc = "enumerated" /\ targets = <<>>)
        => \A i \in 1..Len(page.time_slots) : AvailableCard(i) => InMatching(i)


(***************************************************************************)
(* The flags at the retry decision                                         *)
(***************************************************************************)
\* C36: whenever the court loop of an attempt has ended, found_any_slots
\* implies booking_error: a court with a matching slot either booked it,
\* and the call returned, or set the error flag; so the retry decision
\* never meets 'found slots and no error'.
C36_FoundImpliesError ==
    /\ AtDecision => (found_any_slots => booking_error)
    /\ pc = "court" => (found_any_slots => booking_error)
    /\ pc \in BookPcs => found_any_slots
    /\ (AtDecision /\ found_any_slots) => checkouts # <<>>

\* the court loop has ended with both flags set, after a failed book_slot
C36_Witness ==
    /\ AtDecision
    /\ found_any_slots
    /\ booking_error
    /\ Len(checkouts) = 1
    /\ book_ret = "False"

\* the step writes the session file: save_browser_state has been called
WritesSession == saves' = saves + 1

\* the step makes an is_authenticated check on the page of the context
ChecksAuth == checks' = checks + 1 \/ check_count' = check_count + 1

\* C37: every write of the session file is preceded, in the same run and
\* on the same browser context, by an is_authenticated check that returned
\* true: the writing step either follows a result of True that was set by
\* a check, or makes that check itself; the file changes in no other step
C37_WriteOnlyAfterTrueCheck ==
    /\ [][WritesSession =>
            /\ context # None
            /\ context' = context
            /\ \/ ensure_ret = "True" /\ checks + check_count > 0
               \/ ChecksAuth /\ ensure_ret' = "True"]_vars
    /\ [][ensure_ret' = "True" /\ ensure_ret # "True" => ChecksAuth]_vars
    /\ [][session_file' # session_file => WritesSession]_vars

\* a keep-alive visit whose first check failed and whose second check,
\* after the click on "Sign in", succeeded has written the file
C37_Witness ==
    /\ mode = "keep_alive"
    /\ pc = "visit over"
    /\ checks = 2
    /\ saves = 1
    /\ session_file = "written"

\* navigate_to_target_date has returned
Navigated == pc = "navigated"

\* the fallback clicked the next day's control or the pager
FallbackClicked ==
    \E k \in 1..Len(nav.clicks) : nav.clicks[k] \in {"next_day", "right_arrow"}

\* C38: navigate_to_target_date returns true only if the target date's
\* control was clicked in the call and no date control or pager was clicked
\* after it; when the fallback clicked the next day's control or the pager
\* and the target's control was not visible afterwards, it returns false
C38_TrueOnlyOnTargetDate ==
    Navigated =>
        /\ nav.ret => /\ nav.clicks # <<>>
                      /\ Last(nav.clicks) = "target"
                      /\ ClicksOn("target") = 1
        /\ FallbackClicked /\ ~date_page.target_second => ~nav.ret

\* the fallback clicked both controls and the target stayed invisible
C38_Witness ==
    /\ Navigated
    /\ nav = [ret |-> FALSE, clicks |-> <<"next_day", "right_arrow">>]
    /\ ~date_page.target_second

\* the clicks of cancel_booking in the order the code has them
ClickOrder == <<"click more_vert", "click cancel", "click confirm">>

\* the clicks the call made, in the order it made them
ClicksMade == SelectSeq(ui, LAMBDA u : \E k \in 1..Len(ClickOrder) : ClickOrder[k] = u)

\* the dialog was looked at before the confirm button was clicked
DialogSeenBeforeConfirm ==
    \E k \in 1..Len(ui) :
        /\ ui[k] = "dialog visible?"
        /\ \E j \in (k + 1)..Len(ui) : ui[j] = "click confirm"

\* C39: cancel_booking clicks the menu button, then the cancel item, then
\* the confirm button, each at most once and none without the one before;
\* the confirm button is clicked only after the dialog was seen visible; a
\* missing card, menu button, cancel item or dialog gives False with no
\* later click; True is returned only when the confirm button was clicked
C39_CancelClickOrder ==
    pc = "cancelled" =>
        /\ Len(ClicksMade) <= Len(ClickOrder)
        /\ \A k \in 1..Len(ClicksMade) : ClicksMade[k] = ClickOrder[k]
        /\ Did("click confirm")
             => bookings_page.dialog_visible /\ DialogSeenBeforeConfirm
        /\ bookings_page.card = "none"
             => cancel_ret = FALSE /\ ClicksMade = <<>>
        /\ bookings_page.more_vert = "none"
             => cancel_ret = FALSE /\ ClicksMade = <<>>
        /\ ~bookings_page.link_visible
             => cancel_ret = FALSE /\ Len(ClicksMade) <= 1
        /\ ~bookings_page.dialog_visible
             => cancel_ret = FALSE /\ Len(ClicksMade) <= 2
        /\ cancel_ret = TRUE => Did("click confirm")

\* the cancel item was clicked and the dialog did not show
C39_Witness ==
    /\ pc = "cancelled"
    /\ ~bookings_page.dialog_visible
    /\ ClicksMade = <<"click more_vert", "click cancel">>
    /\ cancel_ret = FALSE

\* attempt_booking was left by an exception
Propagated == pc = "raised"

\* book_slot was called at most once on each court in the attempt
OneCallPerCourt ==
    \A i, j \in 1..Len(checkouts) : checkouts[i] = checkouts[j] => i = j

\* C40: a call of attempt_booking returns after at most max_retries
\* attempts (listing navigations), with at most one book_slot call per
\* court in an attempt and at most max_retries - 1 retry delays, none of
\* them after the last attempt; with max_retries = 0 it returns None
\* without a navigation; an exception raised outside the handling of a
\* court uses up an attempt and never leaves the call
C40_BoundedRetriesNeverRaises ==
    /\ [](listing_navs <= max_retries /\ attempt <= max_retries)
    /\ []OneCallPerCourt
    /\ [](max_retries > 0 => delays <= max_retries - 1)
    /\ [][delays' = delays + 1 => attempt < max_retries - 1]_vars
    /\ [](max_retries = 0 =>
            /\ listing_navs = 0
            /\ delays = 0
            /\ visited = <<>>
            /\ pc = "done" => result = Null)
    /\ []~Propagated
    /\ <>(pc = "done")

=============================================================================
